---- MODULE Spec2Model ----
(***************************************************************************)
(* Flow orchestration core of the anxiety support bot:                     *)
(*   src/src/safety/crisis_detector.py      crisis screen                  *)
(*   src/src/flows/base_flow.py             FlowState, base flow engine    *)
(*   src/src/flows/<scenario>/*_flow.py     per-scenario step logic        *)
(*   src/src/flows/clinical_flow_manager.py registry of active flows       *)
(* User text is a sequence of words, each word a sequence of characters,   *)
(* so that keyword, regex and rating matching are computed on characters   *)
(* the way the Python code computes them.                                  *)
(***************************************************************************)
EXTENDS Integers, Sequences, FiniteSets, TLC

(***************************************************************************)
(* Bounds                                                                  *)
(***************************************************************************)
MaxWords == 1
MaxEvents == 5

Users == {"u1"}

(***************************************************************************)
(* Text layer                                                              *)
(***************************************************************************)
Vocabulary ==
    { <<"o", "k">>,
      <<"k", "n", "o", "w">>,
      <<"d", "o", "n", "e">>,
      <<"d", "i", "f", "f", "i", "c", "u", "l", "t">>,
      <<"o", "r">>,
      <<"3">>,
      <<"1", "0">>,
      <<"1", "1">>,
      <<"s", "e", "v", "e", "n">>,
      <<"H", "o", "p", "e", "l", "e", "s", "s">>,
      <<"o", "v", "e", "r", "w", "h", "e", "l", "m", "e", "d">> }

RECURSIVE WordSeqs(_)
WordSeqs(n) ==
    IF n = 0 THEN { <<>> }
    ELSE { Append(s, w) : s \in WordSeqs(n - 1), w \in Vocabulary }

RECURSIVE Join(_)
Join(ws) ==
    IF Len(ws) = 0 THEN <<>>
    ELSE IF Len(ws) = 1 THEN ws[1]
    ELSE ws[1] \o <<" ">> \o Join(Tail(ws))

Lower(text) ==
    [i \in 1..Len(text) |->
        CASE text[i] = "D" -> "d"
          [] text[i] = "H" -> "h"
          [] OTHER -> text[i]]

Digits == {"0", "1", "2", "3", "4", "5", "6", "7", "8", "9"}

IsWordChar(c) ==
    c \in Digits \cup {"_"} \cup
    {"a", "b", "c", "d", "e", "f", "g", "h", "i", "j", "k", "l", "m", "n", "o",
        "p", "q", "r", "s", "t", "u", "v", "w", "x", "y", "z", "D", "H"}

OccursAt(kw, text, i) ==
    /\ i + Len(kw) - 1 <= Len(text)
    /\ \A j \in 1..Len(kw) : text[i + j - 1] = kw[j]

Contains(kw, text) == \E i \in 1..Len(text) : OccursAt(kw, text, i)

WordBoundary(text, i) ==
    LET before == IF i > 1 /\ i - 1 <= Len(text) THEN IsWordChar(text[i - 1]) ELSE FALSE
        after  == IF i >= 1 /\ i <= Len(text) THEN IsWordChar(text[i]) ELSE FALSE
    IN  before # after

RegexWholeWord(kw, text) ==
    \E i \in 1..Len(text) :
        /\ OccursAt(kw, text, i)
        /\ WordBoundary(text, i)
        /\ WordBoundary(text, i + Len(kw))

(***************************************************************************)
(* CrisisDetector: pattern tables and detect_crisis_level                  *)
(***************************************************************************)
high_risk_patterns ==
    { \* suicidal_ideation
      <<"w", "a", "n", "t", " ", "t", "o", " ", "d", "i", "e">>,
      <<"w", "a", "n", "n", "a", " ", "d", "i", "e">>,
      <<"w", "i", "s", "h", " ", "i", " ", "w", "a", "s", " ", "d", "e", "a", "d">>,
      <<"k", "i", "l", "l", " ", "m", "y", "s", "e", "l", "f">>,
      <<"k", "i", "l", "l", "i", "n", "g", " ", "m", "y", "s", "e", "l", "f">>,
      <<"e", "n", "d", " ", "m", "y", " ", "l", "i", "f", "e">>,
      <<"s", "u", "i", "c", "i", "d", "e">>,
      <<"s", "u", "i", "c", "i", "d", "a", "l", " ", "t", "h", "o", "u", "g", "h", "t", "s">>,
      <<"s", "u", "i", "c", "i", "d", "a", "l">>,
      <<"b", "e", "t", "t", "e", "r", " ", "o", "f", "f", " ", "d", "e", "a", "d">>,
      <<"w", "o", "r", "l", "d", " ", "b", "e", "t", "t", "e", "r", " ", "w", "i", "t", "h", "o", "u", "t", " ", "m", "e">>,
      <<"n", "o", " ", "p", "o", "i", "n", "t", " ", "l", "i", "v", "i", "n", "g">>,
      <<"n", "o", " ", "r", "e", "a", "s", "o", "n", " ", "t", "o", " ", "l", "i", "v", "e">>,
      \* self_harm
      <<"c", "u", "t", " ", "m", "y", "s", "e", "l", "f">>,
      <<"c", "u", "t", "t", "i", "n", "g", " ", "m", "y", "s", "e", "l", "f">>,
      <<"h", "u", "r", "t", " ", "m", "y", "s", "e", "l", "f">>,
      <<"h", "a", "r", "m", " ", "m", "y", "s", "e", "l", "f">>,
      <<"h", "a", "r", "m", "i", "n", "g", " ", "m", "y", "s", "e", "l", "f">>,
      <<"s", "e", "l", "f", " ", "h", "a", "r", "m">>,
      <<"s", "e", "l", "f", "-", "h", "a", "r", "m">>,
      \* hopelessness
      <<"c", "a", "n", "'", "t", " ", "g", "o", " ", "o", "n">>,
      <<"c", "a", "n", "n", "o", "t", " ", "g", "o", " ", "o", "n">>,
      <<"g", "i", "v", "e", " ", "u", "p">>,
      <<"h", "o", "p", "e", "l", "e", "s", "s">>,
      <<"n", "o", " ", "h", "o", "p", "e">>,
      <<"n", "o", "t", "h", "i", "n", "g", " ", "l", "e", "f", "t">>,
      <<"e", "n", "d", " ", "i", "t", " ", "a", "l", "l">>,
      <<"e", "n", "d", "i", "n", "g", " ", "i", "t", " ", "a", "l", "l">> }

medium_risk_patterns ==
    { \* severe_distress
      <<"c", "a", "n", "'", "t", " ", "t", "a", "k", "e", " ", "i", "t", " ", "a", "n", "y", "m", "o", "r", "e">>,
      <<"c", "a", "n", "n", "o", "t", " ", "t", "a", "k", "e", " ", "i", "t">>,
      <<"o", "v", "e", "r", "w", "h", "e", "l", "m", "e", "d">>,
      <<"b", "r", "e", "a", "k", "i", "n", "g", " ", "d", "o", "w", "n">>,
      <<"f", "a", "l", "l", "i", "n", "g", " ", "a", "p", "a", "r", "t">>,
      <<"d", "e", "s", "p", "e", "r", "a", "t", "e">>,
      <<"d", "e", "s", "p", "e", "r", "a", "t", "i", "o", "n">> }

detect_crisis_level(text) ==
    LET text_lower == Lower(text)
        high_risk_found == { p \in high_risk_patterns : RegexWholeWord(p, text_lower) }
        medium_risk_found == { p \in medium_risk_patterns : RegexWholeWord(p, text_lower) }
    IN  IF high_risk_found # {} THEN "high"
        ELSE IF medium_risk_found # {} THEN "medium"
        ELSE "none"

detect_crisis_keywords(text) == detect_crisis_level(text) \in {"high", "medium"}

(***************************************************************************)
(* Rating extraction (re.findall(r'\b([1-9]|10)\b') and number words)      *)
(***************************************************************************)
SingleDigitAt(text, i) ==
    /\ WordBoundary(text, i)
    /\ text[i] \in Digits \ {"0"}
    /\ WordBoundary(text, i + 1)

\* int(numbers[0]) of the findall, 0 when the findall is empty
FirstNumber(text) ==
    LET hits == { i \in 1..Len(text) :
                    \/ SingleDigitAt(text, i)
                    \/ /\ WordBoundary(text, i)
                       /\ OccursAt(<<"1", "0">>, text, i)
                       /\ WordBoundary(text, i + 2) }
    IN  IF hits = {} THEN 0
        ELSE LET i == CHOOSE h \in hits : \A g \in hits : h <= g
             IN  IF SingleDigitAt(text, i)
                 THEN CHOOSE v \in 1..9 : ToString(v) = text[i]
                 ELSE 10

word_ratings ==
    << <<"o", "n", "e">>,
       <<"t", "w", "o">>,
       <<"t", "h", "r", "e", "e">>,
       <<"f", "o", "u", "r">>,
       <<"f", "i", "v", "e">>,
       <<"s", "i", "x">>,
       <<"s", "e", "v", "e", "n">>,
       <<"e", "i", "g", "h", "t">>,
       <<"n", "i", "n", "e">>,
       <<"t", "e", "n">> >>

\* AcuteAnxietyFlow.extract_anxiety_rating, GeneralAnxietyFlow.extract_effectiveness_rating
extract_anxiety_rating(text) ==
    IF FirstNumber(text) # 0 THEN FirstNumber(text)
    ELSE \* first entry of word_ratings, in dictionary order, that is a substring
         LET hits == { k \in 1..Len(word_ratings) :
                         Contains(word_ratings[k], Lower(text)) }
         IN  IF hits = {} THEN 0 ELSE CHOOSE h \in hits : \A g \in hits : h <= g

\* NighttimeFlow.extract_sleepiness_rating: digits only
extract_sleepiness_rating(text) == FirstNumber(text)

(***************************************************************************)
(* Indicator lists that decide advance_step in the step branch logic       *)
(***************************************************************************)
panic_breathing_difficulty ==
    { <<"c", "a", "n", "'", "t">>,
      <<"d", "i", "f", "f", "i", "c", "u", "l", "t">>,
      <<"n", "o", "t", " ", "w", "o", "r", "k", "i", "n", "g">> }

sleep_restructuring_difficulty ==
    { <<"d", "i", "f", "f", "i", "c", "u", "l", "t">>,
      <<"n", "o", "t", " ", "w", "o", "r", "k", "i", "n", "g">> }

risk_indicators ==
    { <<"y", "e", "s">>,
      <<"s", "o", "m", "e", "t", "i", "m", "e", "s">>,
      <<"h", "u", "r", "t", " ", "m", "y", "s", "e", "l", "f">>,
      <<"e", "n", "d", " ", "i", "t">>,
      <<"d", "i", "e">> }

option_indicators ==
    { <<"o", "r">>,
      <<"e", "i", "t", "h", "e", "r">>,
      <<"o", "p", "t", "i", "o", "n">>,
      <<"c", "h", "o", "i", "c", "e">>,
      <<"c", "o", "u", "l", "d">> }

time_indicators ==
    { <<"d", "a", "y">>,
      <<"w", "e", "e", "k">>,
      <<"m", "o", "n", "t", "h">>,
      <<"t", "o", "m", "o", "r", "r", "o", "w">>,
      <<"s", "o", "o", "n">>,
      <<"d", "e", "a", "d", "l", "i", "n", "e">> }

\* indicator_matches of DecisionMakingFlow.process_clinical_step, step 1
perfectionism_indicators ==
    { <<"p", "e", "r", "f", "e", "c", "t">>,
      <<"r", "i", "g", "h", "t", " ", "c", "h", "o", "i", "c", "e">>,
      <<"b", "e", "s", "t">>,
      <<"w", "r", "o", "n", "g">>,
      <<"m", "e", "s", "s", " ", "u", "p">>,
      <<"r", "e", "g", "r", "e", "t">> }

AnyIn(indicators, text) == \E kw \in indicators : Contains(kw, Lower(text))

(***************************************************************************)
(* What the engine reads from one user text.  Computed once per text.      *)
(***************************************************************************)
Analyse(text) ==
    [ crisis_level     |-> detect_crisis_level(text),
      rating           |-> extract_anxiety_rating(text),
      sleepiness       |-> extract_sleepiness_rating(text),
      breathing_hard   |-> AnyIn(panic_breathing_difficulty, text),
      restructure_hard |-> AnyIn(sleep_restructuring_difficulty, text),
      risk             |-> AnyIn(risk_indicators, text),
      options          |-> AnyIn(option_indicators, text),
      time_limit       |-> AnyIn(time_indicators, text),
      perfectionism    |-> AnyIn(perfectionism_indicators, text) ]

Inputs ==
    { Analyse(Join(ws)) : ws \in UNION { WordSeqs(n) : n \in 1..MaxWords } }

\* a screen that lets medium-risk text through
Flagged_high_only(inp) == inp.crisis_level = "high"

\* detect_crisis_keywords(user_input) on an analysed text
Flagged(inp) == inp.crisis_level \in {"high", "medium"}

\* of the text of a start context the engine reads only the crisis verdict
ContextCrisis == { Flagged(inp) : inp \in Inputs }

(***************************************************************************)
(* Flow definitions: clinical_steps of the eight flow classes              *)
(***************************************************************************)
steps_decision_making ==
    << [intervention |-> "decision_assessment", step_type |-> "reassurance", requires_input |-> TRUE],
       [intervention |-> "perfectionism_check", step_type |-> "reassurance", requires_input |-> TRUE],
       [intervention |-> "decision_framework", step_type |-> "technique", requires_input |-> TRUE],
       [intervention |-> "values_clarification", step_type |-> "education", requires_input |-> TRUE],
       [intervention |-> "good_enough_principle", step_type |-> "technique", requires_input |-> FALSE],
       [intervention |-> "time_limit_technique", step_type |-> "education", requires_input |-> TRUE],
       [intervention |-> "decision_confidence", step_type |-> "reassurance", requires_input |-> TRUE] >>

steps_general_anxiety ==
    << [intervention |-> "emotion_check_in", step_type |-> "assessment", requires_input |-> TRUE],
       [intervention |-> "psychoeducation_general", step_type |-> "education", requires_input |-> FALSE],
       [intervention |-> "coping_options", step_type |-> "technique", requires_input |-> TRUE],
       [intervention |-> "reflection", step_type |-> "reassurance", requires_input |-> FALSE],
       [intervention |-> "effectiveness_review", step_type |-> "effectiveness_check", requires_input |-> TRUE] >>

steps_isolation ==
    << [intervention |-> "loneliness_validation", step_type |-> "reassurance", requires_input |-> TRUE],
       [intervention |-> "safety_assessment", step_type |-> "safety_check", requires_input |-> TRUE],
       [intervention |-> "loneliness_psychoeducation", step_type |-> "education", requires_input |-> FALSE],
       [intervention |-> "self_compassion_exercise", step_type |-> "technique", requires_input |-> TRUE],
       [intervention |-> "connection_inventory", step_type |-> "technique", requires_input |-> TRUE],
       [intervention |-> "small_connection_step", step_type |-> "technique", requires_input |-> TRUE],
       [intervention |-> "self_care_planning", step_type |-> "technique", requires_input |-> TRUE] >>

steps_panic ==
    << [intervention |-> "safety_assessment", step_type |-> "reassurance", requires_input |-> TRUE],
       [intervention |-> "psychoeducation", step_type |-> "education", requires_input |-> FALSE],
       [intervention |-> "4_7_8_breathing", step_type |-> "technique", requires_input |-> TRUE],
       [intervention |-> "5_4_3_2_1_grounding", step_type |-> "technique", requires_input |-> TRUE],
       [intervention |-> "progressive_muscle_relaxation", step_type |-> "technique", requires_input |-> TRUE],
       [intervention |-> "clinical_reassurance", step_type |-> "reassurance", requires_input |-> FALSE],
       [intervention |-> "effectiveness_assessment", step_type |-> "effectiveness_check", requires_input |-> TRUE] >>

steps_physical_triggers ==
    << [intervention |-> "trigger_assessment", step_type |-> "assessment", requires_input |-> TRUE],
       [intervention |-> "trigger_validation", step_type |-> "reassurance", requires_input |-> FALSE],
       [intervention |-> "body_awareness", step_type |-> "technique", requires_input |-> TRUE],
       [intervention |-> "trigger_differentiation", step_type |-> "education", requires_input |-> TRUE],
       [intervention |-> "immediate_modifications", step_type |-> "technique", requires_input |-> TRUE],
       [intervention |-> "grounding_through_body", step_type |-> "technique", requires_input |-> TRUE],
       [intervention |-> "trigger_prevention", step_type |-> "technique", requires_input |-> TRUE] >>

steps_pre_event ==
    << [intervention |-> "event_assessment", step_type |-> "assessment", requires_input |-> TRUE],
       [intervention |-> "normalization", step_type |-> "reassurance", requires_input |-> FALSE],
       [intervention |-> "preparation_checklist", step_type |-> "technique", requires_input |-> TRUE],
       [intervention |-> "visualization", step_type |-> "technique", requires_input |-> TRUE],
       [intervention |-> "confidence_affirmations", step_type |-> "technique", requires_input |-> TRUE],
       [intervention |-> "post_event_planning", step_type |-> "technique", requires_input |-> TRUE] >>

steps_sleep ==
    << [intervention |-> "sleep_assessment", step_type |-> "assessment", requires_input |-> TRUE],
       [intervention |-> "sleep_psychoeducation", step_type |-> "education", requires_input |-> FALSE],
       [intervention |-> "cognitive_restructuring", step_type |-> "technique", requires_input |-> TRUE],
       [intervention |-> "body_scan_relaxation", step_type |-> "technique", requires_input |-> TRUE],
       [intervention |-> "sleep_hygiene", step_type |-> "technique", requires_input |-> TRUE],
       [intervention |-> "20_minute_rule", step_type |-> "education", requires_input |-> FALSE],
       [intervention |-> "effectiveness_check", step_type |-> "assessment", requires_input |-> TRUE] >>

steps_uncertainty ==
    << [intervention |-> "uncertainty_assessment", step_type |-> "assessment", requires_input |-> TRUE],
       [intervention |-> "uncertainty_normalization", step_type |-> "reassurance", requires_input |-> FALSE],
       [intervention |-> "worry_vs_problem_solving", step_type |-> "technique", requires_input |-> TRUE],
       [intervention |-> "worry_time_technique", step_type |-> "technique", requires_input |-> FALSE],
       [intervention |-> "uncertainty_tolerance", step_type |-> "technique", requires_input |-> TRUE],
       [intervention |-> "present_moment_grounding", step_type |-> "technique", requires_input |-> TRUE],
       [intervention |-> "coping_confidence", step_type |-> "reassurance", requires_input |-> TRUE] >>

clinical_steps(scenario) ==
    CASE scenario = "panic" -> steps_panic
      [] scenario = "sleep" -> steps_sleep
      [] scenario = "pre_event" -> steps_pre_event
      [] scenario = "isolation" -> steps_isolation
      [] scenario = "uncertainty" -> steps_uncertainty
      [] scenario = "decision_making" -> steps_decision_making
      [] scenario = "physical_triggers" -> steps_physical_triggers
      [] scenario = "general_anxiety" -> steps_general_anxiety

\* intensity argument each flow class passes to the base constructor
intensity(scenario) ==
    CASE scenario = "panic" -> "high"
      [] scenario = "general_anxiety" -> "variable"
      [] OTHER -> "medium"

\* clinical_steps[i] for the 0-based index the code uses
StepAt(scenario, idx) == clinical_steps(scenario)[idx + 1]

NumSteps(scenario) == Len(clinical_steps(scenario))

(***************************************************************************)
(* FlowState and replies                                                   *)
(***************************************************************************)
FlowState ==
    [ current_step          |-> 0,
      user_responses        |-> {},
      effectiveness_ratings |-> <<>>,
      completion_status     |-> "in_progress",
      safety_flags          |-> <<>>,
      content_retrievals    |-> 0,
      dynamic_content_used  |-> <<>> ]

NewFlow(scenario) == [scenario |-> scenario, state |-> FlowState]

NoStepInfo == [current_step |-> 0, total_steps |-> 0, intervention_type |-> "absent"]

\* The keys of a reply dict that the engine, the registry or a caller reads.
\* message: the 'message' value is a non-empty string; advance_step is
\* "absent" when the dict has no such key; step_number is 0 when absent;
\* a flag (disable_free_form_responses, disable_free_form,
\* immediate_escalation, crisis_override) is FALSE when the key is absent.
Reply ==
    [ kind             |-> "none",
      flow_type        |-> "absent",
      message          |-> FALSE,
      advance_step     |-> "absent",
      flow_completed   |-> FALSE,
      crisis_override  |-> FALSE,
      requires_input   |-> "absent",
      step_number      |-> 0,
      step_info        |-> NoStepInfo,
      rating           |-> 0,
      completion_num   |-> 0,
      available_flows  |-> {},
      crisis_resources |-> {},
      disable_free_form_responses |-> FALSE,
      disable_free_form |-> FALSE,
      immediate_escalation |-> FALSE,
      perfectionism_identified |-> FALSE ]

Min(a, b) == IF a <= b THEN a ELSE b

step_info(scenario, step_idx) ==
    [ current_step      |-> step_idx + 1,
      total_steps       |-> NumSteps(scenario),
      intervention_type |-> StepAt(scenario, step_idx).intervention ]

\* ClinicalTherapeuticFlow.complete_clinical_flow
complete_clinical_flow(flow) ==
    LET n == NumSteps(flow.scenario)
        st == [flow.state EXCEPT !.completion_status = "completed"]
    IN  [ flow |-> [flow EXCEPT !.state = st],
          response |->
            [Reply EXCEPT !.kind = "completed",
                          !.message = TRUE,
                          !.flow_completed = TRUE,
                          !.completion_num = Min(st.current_step, n),
                          !.step_info = [current_step |-> n, total_steps |-> n,
                                         intervention_type |-> "completed"]] ]

\* ClinicalTherapeuticFlow.get_current_step_response (the base version, used
\* by AcuteAnxietyFlow and DecisionMakingFlow, which do not override it)
get_current_step_response(flow) ==
    IF flow.state.current_step >= NumSteps(flow.scenario)
    THEN complete_clinical_flow(flow)
    ELSE [ flow |-> flow,
           response |->
             [Reply EXCEPT !.kind = "step",
                           !.message = TRUE,
                           !.advance_step = "True",
                           !.requires_input =
                               IF StepAt(flow.scenario, flow.state.current_step).requires_input
                               THEN "True" ELSE "False",
                           !.step_number = flow.state.current_step + 1] ]

\* a crisis protocol that starts the flags afresh
activate_crisis_protocol_resetting(flow) ==
    [ flow |-> [flow EXCEPT !.state.safety_flags = <<"crisis_protocol_activated">>],
      response |->
        [Reply EXCEPT !.kind = "crisis",
                      !.flow_type = "crisis_override",
                      !.message = TRUE,
                      !.crisis_override = TRUE,
                      !.disable_free_form = TRUE,
                      !.immediate_escalation = TRUE,
                      !.crisis_resources = {"National Suicide Prevention Lifeline",
                                            "Crisis Text Line",
                                            "Emergency Services"}] ]

\* ClinicalTherapeuticFlow.activate_crisis_protocol
activate_crisis_protocol(flow) ==
    [ flow |-> [flow EXCEPT !.state.safety_flags =
                                Append(@, "crisis_protocol_activated")],
      response |->
        [Reply EXCEPT !.kind = "crisis",
                      !.flow_type = "crisis_override",
                      !.message = TRUE,
                      !.crisis_override = TRUE,
                      !.disable_free_form = TRUE,
                      !.immediate_escalation = TRUE,
                      !.crisis_resources = {"National Suicide Prevention Lifeline",
                                            "Crisis Text Line",
                                            "Emergency Services"}] ]

(***************************************************************************)
(* Step branch logic of the scenario flows.  A branch says whether the     *)
(* reply has a non-empty message, its advance_step, the rating it appends  *)
(* (0: none), the safety flag it appends ("": none), and whether the step  *)
(* function falls through to get_current_step_response.  found: the        *)
(* content source returned a string (get_best returns None otherwise).     *)
(***************************************************************************)
Branch(message, advance, rating) ==
    [message |-> message, advance |-> advance, rating |-> rating,
     flag |-> "", fallthrough |-> FALSE, perfectionism |-> FALSE]

\* AcuteAnxietyFlow.process_clinical_step, steps 0..6
AcuteAnxietyFlow_step(step_idx, inp, found) ==
    CASE step_idx = 0 -> Branch(TRUE, TRUE, 0)
      [] step_idx = 1 -> Branch(found, TRUE, 0)
      [] step_idx = 2 -> Branch(TRUE, ~inp.breathing_hard, 0)
      [] step_idx \in {3, 4, 5} -> Branch(TRUE, TRUE, 0)
      [] step_idx = 6 ->
            IF inp.rating # 0 THEN Branch(TRUE, TRUE, inp.rating)
            ELSE [Branch(TRUE, TRUE, 0) EXCEPT !.fallthrough = TRUE]

\* NighttimeFlow.process_clinical_step, steps 0..6
NighttimeFlow_step(step_idx, inp, found) ==
    CASE step_idx = 0 -> Branch(TRUE, TRUE, 0)
      [] step_idx = 1 -> Branch(found, TRUE, 0)
      [] step_idx = 2 -> Branch(TRUE, ~inp.restructure_hard, 0)
      [] step_idx \in {3, 4} -> Branch(TRUE, TRUE, 0)
      [] step_idx = 5 -> Branch(found, TRUE, 0)
      [] step_idx = 6 ->
            IF inp.sleepiness # 0 THEN Branch(TRUE, TRUE, inp.sleepiness)
            ELSE Branch(TRUE, FALSE, 0)

\* PreEventFlow.process_clinical_step, steps 0..5
PreEventFlow_step(step_idx, inp, found) ==
    CASE step_idx = 1 -> Branch(found, TRUE, 0)
      [] OTHER -> Branch(TRUE, TRUE, 0)

\* IsolationFlow.process_clinical_step, steps 0..6
IsolationFlow_step(step_idx, inp, found) ==
    CASE step_idx = 1 ->
            IF inp.risk
            THEN [Branch(TRUE, FALSE, 0) EXCEPT !.flag = "self_harm_risk_identified"]
            ELSE Branch(TRUE, TRUE, 0)
      [] step_idx = 2 -> Branch(found, TRUE, 0)
      [] OTHER -> Branch(TRUE, TRUE, 0)

\* UncertaintyFlow.process_clinical_step, steps 0..6
UncertaintyFlow_step(step_idx, inp, found) == Branch(TRUE, TRUE, 0)

\* DecisionMakingFlow.process_clinical_step, steps 0..6
DecisionMakingFlow_step(step_idx, inp, found) ==
    CASE step_idx = 1 -> [Branch(TRUE, TRUE, 0) EXCEPT !.perfectionism = inp.perfectionism]
      [] step_idx = 2 -> Branch(TRUE, inp.options, 0)
      [] step_idx = 5 -> Branch(TRUE, inp.time_limit, 0)
      [] OTHER -> Branch(TRUE, TRUE, 0)

\* PhysicalTriggersFlow.process_clinical_step, steps 0..6
PhysicalTriggersFlow_step(step_idx, inp, found) ==
    CASE step_idx = 1 -> Branch(found, TRUE, 0)
      [] OTHER -> Branch(TRUE, TRUE, 0)

\* What a branch does to the flow and the reply it returns.  A rating or a
\* flag is appended only in branches that return their own reply, so the
\* fall-through to get_current_step_response sees the state unchanged.
apply_branch(flow, step_idx, b) ==
    [ flow |->
        [flow EXCEPT
           !.state.effectiveness_ratings = IF b.rating # 0 THEN Append(@, b.rating) ELSE @,
           !.state.safety_flags = IF b.flag # "" THEN Append(@, b.flag) ELSE @],
      response |->
        IF b.fallthrough
        THEN [get_current_step_response(flow).response
                EXCEPT !.step_info = step_info(flow.scenario, step_idx)]
        ELSE [Reply EXCEPT !.kind = "step",
                           !.message = b.message,
                           !.advance_step = IF b.advance THEN "True" ELSE "False",
                           !.rating = b.rating,
                           !.perfectionism_identified = b.perfectionism,
                           !.step_info = step_info(flow.scenario, step_idx)] ]

\* <Flow>.process_clinical_step of the seven scenario flows: completion guard,
\* then the branch of the current step.
process_clinical_step(flow, inp, found) ==
    IF flow.state.current_step >= NumSteps(flow.scenario)
    THEN complete_clinical_flow(flow)
    ELSE apply_branch(flow, flow.state.current_step,
             CASE flow.scenario = "panic" -> AcuteAnxietyFlow_step(flow.state.current_step, inp, found)
               [] flow.scenario = "sleep" -> NighttimeFlow_step(flow.state.current_step, inp, found)
               [] flow.scenario = "pre_event" -> PreEventFlow_step(flow.state.current_step, inp, found)
               [] flow.scenario = "isolation" -> IsolationFlow_step(flow.state.current_step, inp, found)
               [] flow.scenario = "uncertainty" -> UncertaintyFlow_step(flow.state.current_step, inp, found)
               [] flow.scenario = "decision_making" -> DecisionMakingFlow_step(flow.state.current_step, inp, found)
               [] flow.scenario = "physical_triggers" -> PhysicalTriggersFlow_step(flow.state.current_step, inp, found))

\* ClinicalTherapeuticFlow.process_user_input after process_clinical_step
\* returned r: retrieval tracking for a non-empty message, then the increment
\* of response.get('advance_step', True).  @ is the value before the increment.
track_and_advance(r) ==
    [ flow |->
        [r.flow EXCEPT
           !.state.content_retrievals = IF r.response.message THEN @ + 1 ELSE @,
           !.state.dynamic_content_used =
               IF r.response.message
                  /\ r.flow.state.current_step < NumSteps(r.flow.scenario)
               THEN Append(@, StepAt(r.flow.scenario, r.flow.state.current_step).intervention)
               ELSE @,
           !.state.current_step = IF r.response.advance_step # "False" THEN @ + 1 ELSE @],
      response |-> r.response ]

\* ClinicalTherapeuticFlow.process_user_input
base_process_user_input(flow, inp, found) ==
    IF Flagged(inp)
    THEN activate_crisis_protocol(
             [flow EXCEPT !.state.user_responses = @ \cup {flow.state.current_step},
                          !.state.safety_flags = Append(@, "crisis_detected_during_flow")])
    ELSE track_and_advance(
             process_clinical_step(
                 [flow EXCEPT !.state.user_responses = @ \cup {flow.state.current_step}],
                 inp, found))

\* GeneralAnxietyFlow.process_user_input (overrides the base method).
\* clinical_steps[step_idx] raises IndexError when step_idx is past the end.
general_process_user_input(flow, inp, found) ==
    LET step_idx == flow.state.current_step
        step_reply(message, completed) ==
            [Reply EXCEPT !.kind = "step",
                          !.message = message,
                          !.advance_step = "True",
                          !.flow_completed = completed,
                          !.step_info = step_info(flow.scenario, step_idx)]
    IN  IF step_idx >= NumSteps(flow.scenario)
        THEN [flow |-> flow, response |-> [Reply EXCEPT !.kind = "raised"]]
        ELSE CASE step_idx = 1 -> [flow |-> flow, response |-> step_reply(found, FALSE)]
               [] step_idx \in {0, 2, 3} -> [flow |-> flow, response |-> step_reply(TRUE, FALSE)]
               [] step_idx = 4 ->
                    IF inp.rating # 0
                    THEN [ flow |-> [flow EXCEPT !.state.effectiveness_ratings =
                                                     Append(@, inp.rating)],
                           response |-> [step_reply(TRUE, TRUE) EXCEPT !.rating = inp.rating] ]
                    ELSE [flow |-> flow, response |-> step_reply(TRUE, FALSE)]

\* flow_instance.process_user_input(user_input), dispatched on the class
process_user_input(flow, inp, found) ==
    IF flow.scenario = "general_anxiety"
    THEN general_process_user_input(flow, inp, found)
    ELSE base_process_user_input(flow, inp, found)

(***************************************************************************)
(* Flow start                                                              *)
(***************************************************************************)
\* Classes that override get_current_step_response (they add step_info and
\* take the message from the content source for some step types: the bare
\* content for reassurance, education and technique steps, a fixed string for
\* the others)
flow_get_current_step_response(flow, found) ==
    IF \/ flow.scenario \notin {"sleep", "pre_event", "isolation", "uncertainty",
                                 "physical_triggers"}
       \/ flow.state.current_step >= NumSteps(flow.scenario)
    THEN get_current_step_response(flow)
    ELSE LET step == StepAt(flow.scenario, flow.state.current_step)
             base == get_current_step_response(flow)
         IN  [ flow |-> flow,
               response |->
                 [base.response EXCEPT
                    !.message = IF step.step_type \in {"reassurance", "education", "technique"}
                                THEN found ELSE TRUE,
                    !.step_info = step_info(flow.scenario, flow.state.current_step)] ]

\* ClinicalTherapeuticFlow.start_flow and GeneralAnxietyFlow.start_flow
start_flow(flow, has_text, crisis, found) ==
    IF flow.scenario = "general_anxiety"
    THEN [ flow |-> flow,
           response |->
             [Reply EXCEPT !.kind = "step",
                           !.message = TRUE,
                           !.requires_input = "True",
                           !.step_info = [current_step |-> 1,
                                          total_steps |-> NumSteps(flow.scenario),
                                          intervention_type |->
                                              StepAt(flow.scenario, 0).intervention]] ]
    ELSE LET fresh == [flow EXCEPT !.state = FlowState]
         IN  IF has_text /\ crisis
             THEN activate_crisis_protocol(fresh)
             ELSE flow_get_current_step_response(fresh, found)

(***************************************************************************)
(* ClinicalFlowManager                                                     *)
(***************************************************************************)
clinical_flow_registry ==
    "acute_anxiety_flow" :> "panic" @@
    "panic_crisis_flow" :> "panic" @@
    "panic_breathing_flow" :> "panic" @@
    "panic_flow" :> "panic" @@
    "nighttime_flow" :> "sleep" @@
    "sleep_flow" :> "sleep" @@
    "sleep_hygiene_flow" :> "sleep" @@
    "insomnia_flow" :> "sleep" @@
    "pre_event_flow" :> "pre_event" @@
    "pre_event_nervousness_flow" :> "pre_event" @@
    "performance_anxiety_flow" :> "pre_event" @@
    "event_anxiety_flow" :> "pre_event" @@
    "isolation_flow" :> "isolation" @@
    "loneliness_flow" :> "isolation" @@
    "social_anxiety_flow" :> "isolation" @@
    "connection_flow" :> "isolation" @@
    "uncertainty_flow" :> "uncertainty" @@
    "worry_flow" :> "uncertainty" @@
    "anticipatory_anxiety_flow" :> "uncertainty" @@
    "unknown_flow" :> "uncertainty" @@
    "decision_making_flow" :> "decision_making" @@
    "choice_paralysis_flow" :> "decision_making" @@
    "indecision_flow" :> "decision_making" @@
    "decision_flow" :> "decision_making" @@
    "physical_triggers_flow" :> "physical_triggers" @@
    "somatic_anxiety_flow" :> "physical_triggers" @@
    "environmental_triggers_flow" :> "physical_triggers" @@
    "body_anxiety_flow" :> "physical_triggers" @@
    "general_anxiety_flow" :> "general_anxiety"

\* flow names the callers of the model pass to start_clinical_flow
FlowNames ==
    {"acute_anxiety_flow", "nighttime_flow", "pre_event_flow",
     "isolation_flow", "uncertainty_flow", "decision_making_flow",
     "physical_triggers_flow", "general_anxiety_flow", "bogus_flow"}

VARIABLES active_flows, clinical_outcomes, session_history, reply

\* the requests the server has accepted and not answered yet, by number, and
\* the number of requests accepted so far
VARIABLES in_flight, accepted

\* what the pipeline returned to its caller for the last turn
VARIABLE result

\* what get_clinical_flow_status returned to the last caller that asked
VARIABLE flow_status

\* the last text given to the crisis screens with the levels they returned,
\* and the last routing request with the router's answer
VARIABLES screen, routing

\* the last text given to the rating parsers with the ratings they returned
VARIABLE parsed

vars ==
    <<active_flows, clinical_outcomes, session_history, reply, in_flight, accepted, result,
      flow_status, screen, routing, parsed>>

\* what callers outside the chat turn have observed
probe_vars == <<flow_status, screen, routing, parsed>>

\* the manager's own state, and the server's
manager_vars == <<active_flows, clinical_outcomes, session_history, reply>>

chat_vars == <<in_flight, accepted, result, flow_status, screen, routing, parsed>>

Put(dict, key, value) ==
    [k \in DOMAIN dict \cup {key} |-> IF k = key THEN value ELSE dict[k]]

\* a del that empties the whole dict
Del_every_key(dict, key) == [k \in {} |-> dict[k]]

Del(dict, key) == [k \in DOMAIN dict \ {key} |-> dict[k]]

Get(dict, key, default) == IF key \in DOMAIN dict THEN dict[key] ELSE default

RECURSIVE SumLen(_, _)
SumLen(dict, keys) ==
    IF keys = {} THEN 0
    ELSE LET k == CHOOSE x \in keys : TRUE
         IN  Len(dict[k]) + SumLen(dict, keys \ {k})

\* number of events logged so far, over all users
Events == SumLen(session_history, DOMAIN session_history)

\* ClinicalFlowManager.log_clinical_event
log_clinical_event(history, user_id, event_type) ==
    Put(history, user_id, Append(Get(history, user_id, <<>>), event_type))

\* the reply variable: which call returned what to which user
\* monitoring: current_step and total_steps of response['clinical_monitoring']
Returned(op, user_id, response, monitoring) ==
    [op |-> op, user_id |-> user_id, response |-> response,
     monitoring |-> monitoring]

NoMonitoring == [current_step |-> 0, total_steps |-> 0]

\* reply dict of ClinicalFlowManager.activate_crisis_override
\* what content_retriever.search_by_keywords can do when it is asked for
\* crisis resources: return a resource of a crisis type, return resources of
\* other types, return nothing, or raise
SearchOutcomes == {"crisis_resource", "other_resource", "nothing", "raises"}

\* additional_resources of activate_crisis_override: one entry per returned
\* resource whose metadata type contains 'crisis'; the except branch leaves
\* the list empty
additional_resources(outcome) ==
    IF outcome = "crisis_resource" THEN {"Additional Support"} ELSE {}

\* a crisis reply whose resource list is lost when the lookup raises
crisis_response_needs_lookup(outcome) ==
    [Reply EXCEPT !.kind = "crisis",
                  !.flow_type = "crisis_override",
                  !.message = TRUE,
                  !.disable_free_form_responses = TRUE,
                  !.immediate_escalation = TRUE,
                  !.crisis_resources =
                      IF outcome = "raises" THEN {}
                      ELSE {"National Suicide Prevention Lifeline",
                            "Crisis Text Line",
                            "Emergency Services",
                            "National Alliance on Mental Illness"}
                           \cup additional_resources(outcome)]

\* the reply of activate_crisis_override: the fixed resource list followed by
\* the additional resources
crisis_response(outcome) ==
    [Reply EXCEPT !.kind = "crisis",
                  !.flow_type = "crisis_override",
                  !.message = TRUE,
                  !.disable_free_form_responses = TRUE,
                  !.immediate_escalation = TRUE,
                  !.crisis_resources =
                      {"National Suicide Prevention Lifeline",
                       "Crisis Text Line",
                       "Emergency Services",
                       "National Alliance on Mental Illness"}
                      \cup additional_resources(outcome)]

\* the replies activate_crisis_override can return, one per thing the lookup
\* can do
CrisisReplies == { crisis_response(outcome) : outcome \in SearchOutcomes }

EmptyDict == [k \in {} |-> 0]

\* no text has been screened, nothing has been routed
NoScreen == [ text |-> <<>>, crisis_level |-> "unset", severity |-> "unset" ]

NoRouting ==
    [ intent_scores |-> <<>>, emotion_scores |-> <<>>, selected_flow |-> "unset",
      scenario |-> "unset", intensity |-> "unset", fallback_used |-> FALSE ]

\* no text has been given to the rating parsers
NoParsed ==
    [ words |-> <<>>, text |-> <<>>, done |-> FALSE, anxiety_rating |-> 0,
      effectiveness_rating |-> 0, sleepiness_rating |-> 0 ]

\* the None get_clinical_flow_status returns for a user without active flow
NoStatus ==
    [ present |-> FALSE, flow_name |-> "none", scenario |-> "none", current_step |-> 0,
      total_steps |-> 0, current_intervention |-> "none", safety_flags |-> <<>>,
      effectiveness_ratings |-> <<>>, completion_num |-> 0, rag_retrievals |-> 0,
      dynamic_content_active |-> FALSE ]

\* the pipeline has returned nothing yet
NoResult ==
    [ kind |-> "none", message |-> "none", flow_type |-> "none",
      has_safety |-> FALSE, crisis_detected |-> FALSE, safety_resources |-> {},
      emergency_protocols |-> FALSE, error_occurred |-> FALSE, flow_active |-> FALSE ]

Init ==
    /\ active_flows = EmptyDict
    /\ clinical_outcomes = EmptyDict
    /\ session_history = EmptyDict
    /\ reply = Returned("none", "none", Reply, NoMonitoring)
    /\ in_flight = EmptyDict
    /\ accepted = 0
    /\ result = NoResult
    /\ flow_status = NoStatus
    /\ screen = NoScreen
    /\ routing = NoRouting
    /\ parsed = NoParsed

\* flow_data entry of active_flows.  start_time is the logical time of the
\* start: the number of events in the user's log when the flow was stored.
FlowData(flow, flow_name, start_time) ==
    [ flow_instance        |-> flow,
      start_time           |-> start_time,
      flow_name            |-> flow_name,
      rag_retrievals       |-> 0,
      dynamic_content_used |-> FALSE ]

\* a snapshot that is taken of the flow as it was started, not as it is now
outcome_data_of_started_flow(flow_data) ==
    [ flow_name             |-> flow_data.flow_name,
      scenario              |-> flow_data.flow_instance.scenario,
      start_time            |-> flow_data.start_time,
      completion_num        |-> 1,
      total_steps           |-> NumSteps(flow_data.flow_instance.scenario),
      effectiveness_ratings |-> <<>>,
      safety_flags          |-> <<>>,
      techniques_used       |-> SubSeq(clinical_steps(flow_data.flow_instance.scenario), 1, 1),
      clinical_success      |-> FALSE,
      rag_retrievals        |-> 0 ]

\* outcome_data of ClinicalFlowManager.complete_clinical_session
outcome_data(flow_data) ==
    LET flow == flow_data.flow_instance
        n == NumSteps(flow.scenario)
        completion_num == Min(flow.state.current_step + 1, n)
    IN  [ flow_name             |-> flow_data.flow_name,
          scenario              |-> flow.scenario,
          start_time            |-> flow_data.start_time,
          completion_num        |-> completion_num,
          total_steps           |-> n,
          effectiveness_ratings |-> flow.state.effectiveness_ratings,
          safety_flags          |-> flow.state.safety_flags,
          techniques_used       |-> SubSeq(clinical_steps(flow.scenario), 1,
                                           Min(flow.state.current_step + 1, n)),
          \* completion_rate >= 0.8 and no safety flags
          clinical_success      |-> /\ 10 * completion_num >= 8 * n
                                    /\ Len(flow.state.safety_flags) = 0,
          rag_retrievals        |-> flow_data.rag_retrievals ]

\* a finalize that archives the flow but forgets to clear the active slot
complete_clinical_session_keeps_slot(flows, outcomes, history, user_id) ==
    IF user_id \in DOMAIN flows
    THEN [ active_flows |-> flows,
           clinical_outcomes |->
               Put(outcomes, user_id,
                   Append(Get(outcomes, user_id, <<>>), outcome_data(flows[user_id]))),
           session_history |-> log_clinical_event(history, user_id, "rag_session_completed") ]
    ELSE [ active_flows |-> flows, clinical_outcomes |-> outcomes,
           session_history |-> history ]

\* ClinicalFlowManager.complete_clinical_session as a function of the
\* registry: <<active_flows, clinical_outcomes, session_history>> after it
complete_clinical_session(flows, outcomes, history, user_id) ==
    IF user_id \in DOMAIN flows
    THEN [ active_flows |-> Del(flows, user_id),
           clinical_outcomes |->
               Put(outcomes, user_id,
                   Append(Get(outcomes, user_id, <<>>), outcome_data(flows[user_id]))),
           session_history |-> log_clinical_event(history, user_id, "rag_session_completed") ]
    ELSE [ active_flows |-> flows, clinical_outcomes |-> outcomes,
           session_history |-> history ]

\* a crisis override that leaves the interrupted flow in the active slot
activate_crisis_override_keeps_flow(flows, history, user_id) ==
    [ active_flows |-> flows,
      session_history |-> log_clinical_event(history, user_id,
                                             "crisis_intervention_activated") ]

\* ClinicalFlowManager.activate_crisis_override: the registry after it
activate_crisis_override(flows, history, user_id) ==
    [ active_flows |-> Del(flows, user_id),
      session_history |-> log_clinical_event(history, user_id,
                                             "crisis_intervention_activated") ]

(***************************************************************************)
(* Operations                                                              *)
(***************************************************************************)
\* a start that leaves the crisis screen to the flow's own start_flow
context_is_crisis_unchecked(has_text, crisis) == FALSE

\* the crisis screen of start_clinical_flow: the context has a text and
\* detect_crisis_keywords flags it
context_is_crisis(has_text, crisis) == has_text /\ crisis

\* an error reply for an unknown flow name that lists no flow names
unknown_flow_response_no_list ==
    [Reply EXCEPT !.kind = "unknown_flow"]

\* the reply of start_clinical_flow to a flow name that is not in the registry:
\* an error text with available_flows, the registry's keys
unknown_flow_response ==
    [Reply EXCEPT !.kind = "unknown_flow",
                  !.available_flows = DOMAIN clinical_flow_registry]

\* ClinicalFlowManager.start_clinical_flow(user_id, flow_name, clinical_context)
start_clinical_flow(user_id, flow_name, has_text, crisis, found) ==
    LET history0 == IF user_id \in DOMAIN session_history THEN session_history
                    ELSE Put(session_history, user_id, <<>>)
    IN  IF context_is_crisis(has_text, crisis)
           THEN LET c == activate_crisis_override(active_flows, history0, user_id)
                IN  /\ active_flows' = c.active_flows
                    /\ session_history' = c.session_history
                    /\ clinical_outcomes' = clinical_outcomes
                    /\ \E response \in CrisisReplies :
                          reply' = Returned("start", user_id, response, NoMonitoring)
           ELSE IF flow_name \notin DOMAIN clinical_flow_registry
           THEN /\ session_history' = history0
                /\ UNCHANGED <<active_flows, clinical_outcomes>>
                /\ reply' = Returned("start", user_id, unknown_flow_response,
                                     NoMonitoring)
           ELSE LET flow_instance == NewFlow(clinical_flow_registry[flow_name])
                    started == start_flow(flow_instance, has_text, crisis, found)
                    flow_data == FlowData(started.flow, flow_name, Len(history0[user_id]))
                IN  /\ active_flows' =
                          Put(active_flows, user_id,
                              [flow_data EXCEPT !.dynamic_content_used = TRUE,
                                                !.rag_retrievals = @ + 1])
                    /\ session_history' =
                          log_clinical_event(history0, user_id, "rag_flow_started")
                    /\ clinical_outcomes' = clinical_outcomes
                    /\ reply' = Returned("start", user_id, started.response, NoMonitoring)

\* a handler that answers a user without a flow with a completion reply
no_active_flow_response_completed ==
    [Reply EXCEPT !.kind = "completed", !.message = TRUE, !.flow_completed = TRUE]

\* the reply of process_clinical_response to a user without an active flow:
\* an error text with flow_restart_needed, no step data
no_active_flow_response ==
    [Reply EXCEPT !.kind = "no_active_flow", !.message = TRUE]

\* a start_clinical_flow call, within the event budget
StartClinicalFlow(user_id, flow_name, has_text, crisis, found) ==
    /\ Events < MaxEvents
    /\ start_clinical_flow(user_id, flow_name, has_text, crisis, found)
    /\ UNCHANGED chat_vars

\* ClinicalFlowManager.process_clinical_response(user_id, user_input)
process_clinical_response(user_id, inp, found) ==
    /\ IF Flagged(inp)
       THEN LET c == activate_crisis_override(active_flows, session_history, user_id)
            IN  /\ active_flows' = c.active_flows
                /\ session_history' = c.session_history
                /\ clinical_outcomes' = clinical_outcomes
                /\ \E response \in CrisisReplies :
                      reply' = Returned("continue", user_id, response, NoMonitoring)
       ELSE IF user_id \notin DOMAIN active_flows
       THEN /\ UNCHANGED <<active_flows, clinical_outcomes, session_history>>
            /\ reply' = Returned("continue", user_id, no_active_flow_response,
                                 NoMonitoring)
       ELSE \E p \in {process_user_input(active_flows[user_id].flow_instance, inp, found)} :
            IF p.response.kind = "raised"
            THEN /\ UNCHANGED <<active_flows, clinical_outcomes, session_history>>
                 /\ reply' = Returned("continue", user_id, p.response, NoMonitoring)
            ELSE \E advanced \in
                        {IF p.response.advance_step = "True"
                            /\ p.flow.state.current_step < NumSteps(p.flow.scenario)
                         THEN [p.flow EXCEPT !.state.current_step = @ + 1]
                         ELSE p.flow} :
                 \E flows2 \in
                        {Put(active_flows, user_id,
                             [active_flows[user_id] EXCEPT
                                !.flow_instance = advanced,
                                !.rag_retrievals = IF p.response.message THEN @ + 1 ELSE @,
                                !.dynamic_content_used =
                                    IF p.response.message THEN TRUE ELSE @])},
                    history2 \in
                        {log_clinical_event(session_history, user_id,
                                            "rag_response_processed")} :
                 \E done \in
                        {IF p.response.flow_completed \/ p.response.crisis_override
                         THEN complete_clinical_session(flows2, clinical_outcomes,
                                                        history2, user_id)
                         ELSE [ active_flows |-> flows2,
                                clinical_outcomes |-> clinical_outcomes,
                                session_history |-> history2 ]} :
                    /\ active_flows' = done.active_flows
                    /\ clinical_outcomes' = done.clinical_outcomes
                    /\ session_history' = done.session_history
                    /\ reply' = Returned("continue", user_id, p.response,
                                         [current_step |-> advanced.state.current_step + 1,
                                          total_steps |-> NumSteps(advanced.scenario)])

\* a process_clinical_response call, within the event budget: the budget
\* caps only calls that log an event
ProcessClinicalResponse(user_id, inp, found) ==
    /\ (Flagged(inp) \/ user_id \in DOMAIN active_flows) => Events < MaxEvents
    /\ process_clinical_response(user_id, inp, found)
    /\ UNCHANGED chat_vars

\* A direct call of ClinicalFlowManager.complete_clinical_session(user_id, ...),
\* as AnxietyBotPipeline.end_user_session makes it
end_user_session(user_id) ==
    LET done == complete_clinical_session(active_flows, clinical_outcomes,
                                          session_history, user_id)
    IN  /\ active_flows' = done.active_flows
        /\ clinical_outcomes' = done.clinical_outcomes
        /\ session_history' = done.session_history
        /\ reply' = Returned("complete", user_id, Reply, NoMonitoring)

\* an end_user_session call, within the event budget: the budget caps only
\* calls that log an event
CompleteClinicalSession(user_id) ==
    /\ user_id \in DOMAIN active_flows => Events < MaxEvents
    /\ end_user_session(user_id)
    /\ UNCHANGED chat_vars

Next ==
    \/ \E u \in Users, name \in FlowNames, has_text \in BOOLEAN,
          crisis \in ContextCrisis, found \in BOOLEAN :
          StartClinicalFlow(u, name, has_text, crisis, found)
    \/ \E u \in Users, inp \in Inputs, found \in BOOLEAN :
          ProcessClinicalResponse(u, inp, found)
    \/ \E u \in Users : CompleteClinicalSession(u)

Spec == Init /\ [][Next]_vars

(***************************************************************************)
(* Properties                                                              *)
(***************************************************************************)
Active(u) == u \in DOMAIN active_flows

Instance(u) == active_flows[u].flow_instance

LastOf(seq) == seq[Len(seq)]

Snapshots(u) == Get(clinical_outcomes, u, <<>>)

CrisisLevels == {"medium", "high"}

\* the flow that was active for u is archived by this step: exactly one
\* snapshot, of that flow, is appended to the user's outcome history
SnapshotAppended(u) ==
    /\ u \in DOMAIN clinical_outcomes'
    /\ Len(clinical_outcomes'[u]) = Len(Snapshots(u)) + 1
    /\ SubSeq(clinical_outcomes'[u], 1, Len(Snapshots(u))) = Snapshots(u)
    /\ LastOf(clinical_outcomes'[u]).start_time = active_flows[u].start_time

\* this step is process_clinical_response(u, text) for a text analysed as inp
Continues(u, inp, found) ==
    /\ reply'.op = "continue"
    /\ reply'.user_id = u
    /\ ProcessClinicalResponse(u, inp, found)

\* C1: every continue call on an in-progress flow moves current_step by
\* exactly one when the step's reply says advance_step = True and leaves it
\* unchanged otherwise, so no step index is skipped.
C1_AdvanceByExactlyOne ==
    [][\A u \in Users, inp \in Inputs, found \in BOOLEAN :
          ( /\ Active(u)
            /\ Instance(u).state.current_step < NumSteps(Instance(u).scenario)
            /\ inp.crisis_level = "none"
            /\ Continues(u, inp, found)
            /\ reply'.response.kind = "step" )
          => LET before == Instance(u).state.current_step
                 after  == reply'.monitoring.current_step - 1
             IN  after = before + (IF reply'.response.advance_step = "True" THEN 1 ELSE 0)
      ]_vars

\* C2: on every continue call with crisis-level text (medium or high) the
\* reply is the crisis reply and no step logic has run: the reply carries no
\* step data, no flow is left with a changed step, and nothing is archived,
\* whatever the scenario and the step index.
C2_CrisisPreemptsStepLogic ==
    [][\A u \in Users, inp \in Inputs, found \in BOOLEAN :
          ( /\ inp.crisis_level \in CrisisLevels
            /\ Continues(u, inp, found) )
          => /\ reply'.response \in CrisisReplies
             /\ reply'.monitoring = NoMonitoring
             /\ clinical_outcomes' = clinical_outcomes
             /\ \A v \in DOMAIN active_flows' :
                    v \in DOMAIN active_flows /\ active_flows'[v] = active_flows[v]
             /\ LastOf(session_history'[u]) = "crisis_intervention_activated"
             /\ Len(session_history'[u]) = Len(Get(session_history, u, <<>>)) + 1
      ]_vars

\* a crisis text arrived in the middle of a flow, after a step was processed
C2_Witness ==
    /\ reply.op = "continue"
    /\ reply.response \in CrisisReplies
    /\ "u1" \in DOMAIN session_history
    /\ Len(session_history["u1"]) >= 3
    /\ SubSeq(session_history["u1"], Len(session_history["u1"]) - 1,
              Len(session_history["u1"]))
         = <<"rag_response_processed", "crisis_intervention_activated">>

\* C3: a continue call with crisis-level text leaves the user without an
\* active flow, at whatever step index the flow was.
C3_CrisisClearsActiveSlot ==
    [][\A u \in Users, inp \in Inputs, found \in BOOLEAN :
          ( /\ inp.crisis_level \in CrisisLevels
            /\ Continues(u, inp, found) )
          => u \notin DOMAIN active_flows'
      ]_vars

\* a crisis text arrived as the first reply to a freshly started flow
C3_Witness ==
    /\ reply.op = "continue"
    /\ reply.response.kind = "crisis"
    /\ ~Active("u1")
    /\ "u1" \in DOMAIN session_history
    /\ session_history["u1"] = <<"rag_flow_started", "crisis_intervention_activated">>

\* this step is start_clinical_flow(u, name, context)
Starts(u, name, has_text, crisis, found) ==
    /\ reply'.op = "start"
    /\ reply'.user_id = u
    /\ StartClinicalFlow(u, name, has_text, crisis, found)

\* the instance in u's active slot after this step was stored by this step
NewInstanceStored(u) ==
    /\ u \in DOMAIN active_flows'
    /\ active_flows'[u].start_time = Len(Get(session_history, u, <<>>))
    /\ active_flows'[u].flow_instance.state.current_step = 0

\* C4: a start whose context text is crisis-level returns the crisis reply
\* and leaves no instance in the active slot; a start of a registered flow
\* stores the new instance as active iff its reply is not a crisis reply.
C4_CrisisStartCreatesNoInstance ==
    [][\A u \in Users :
          /\ \A name \in FlowNames, found \in BOOLEAN :
                Starts(u, name, TRUE, TRUE, found)
                => /\ reply'.response.kind = "crisis"
                   /\ u \notin DOMAIN active_flows'
          /\ ( /\ reply'.op = "start"
               /\ reply'.user_id = u
               /\ reply'.response.kind # "unknown_flow" )
             => (NewInstanceStored(u) <=> reply'.response.kind # "crisis")
      ]_vars

\* a start with crisis-level context text has returned
C4_Witness ==
    /\ reply.op = "start"
    /\ reply.response.kind = "crisis"
    /\ ~Active("u1")
    /\ "u1" \in DOMAIN session_history
    /\ session_history["u1"] = <<"crisis_intervention_activated">>

\* C5: whenever a step replaces or removes the flow in a user's active slot,
\* a snapshot of that flow is appended to the user's outcome history in the
\* same step.
C5_NoSilentDrop ==
    [][\A u \in Users :
          ( /\ Active(u)
            /\ \/ u \notin DOMAIN active_flows'
               \/ active_flows'[u].start_time # active_flows[u].start_time )
          => SnapshotAppended(u)
      ]_vars

\* C6: a continue call with crisis-level text on an active flow archives the
\* interrupted flow: one snapshot of it is appended, and the snapshot carries
\* a safety flag added by the interruption.
C6_CrisisFinalizesFlow ==
    [][\A u \in Users, inp \in Inputs, found \in BOOLEAN :
          ( /\ Active(u)
            /\ inp.crisis_level \in CrisisLevels
            /\ Continues(u, inp, found) )
          => /\ SnapshotAppended(u)
             /\ Len(LastOf(clinical_outcomes'[u]).safety_flags)
                  > Len(Instance(u).state.safety_flags)
      ]_vars

\* C7: current_step of a flow instance never exceeds its number of steps:
\* neither in an active slot, nor in the instance a continue call has just
\* processed (clinical_monitoring.current_step is its current_step + 1).
C7_StepNeverExceedsLen ==
    /\ \A u \in DOMAIN active_flows :
          Instance(u).state.current_step <= NumSteps(Instance(u).scenario)
    /\ reply.monitoring.current_step - 1 <= reply.monitoring.total_steps

\* C8: when a non-crisis continue call on an in-progress flow brings
\* current_step to the number of steps, the reply of that call is the
\* completion reply and the flow is archived and cleared in that call.
C8_CompletionInSameTurn ==
    [][\A u \in Users, inp \in Inputs, found \in BOOLEAN :
          ( /\ Active(u)
            /\ Instance(u).state.current_step < NumSteps(Instance(u).scenario)
            /\ inp.crisis_level = "none"
            /\ Continues(u, inp, found)
            /\ reply'.monitoring.current_step - 1 >= reply'.monitoring.total_steps )
          => /\ reply'.response.flow_completed
             /\ u \notin DOMAIN active_flows'
             /\ SnapshotAppended(u)
      ]_vars

\* the step at 0-based index idx of the scenario asks for a 1..10 rating
EffectivenessStep(scenario, idx) ==
    /\ idx < NumSteps(scenario)
    /\ \/ StepAt(scenario, idx).step_type = "effectiveness_check"
       \/ StepAt(scenario, idx).intervention = "effectiveness_check"

\* C9: at an effectiveness-check step, a non-crisis text from which no
\* rating is parsed gives advance_step = False, appends no rating and leaves
\* current_step unchanged.
C9_FailedParseReprompts ==
    [][\A u \in Users, inp \in Inputs, found \in BOOLEAN :
          ( /\ Active(u)
            /\ EffectivenessStep(Instance(u).scenario, Instance(u).state.current_step)
            /\ inp.crisis_level = "none"
            /\ inp.rating = 0
            /\ Continues(u, inp, found) )
          => /\ reply'.response.advance_step = "False"
             /\ u \in DOMAIN active_flows'
             /\ active_flows'[u].flow_instance.state.current_step
                  = Instance(u).state.current_step
             /\ active_flows'[u].flow_instance.state.effectiveness_ratings
                  = Instance(u).state.effectiveness_ratings
      ]_vars

EngineFields(state) ==
    [ current_step          |-> state.current_step,
      user_responses        |-> state.user_responses,
      effectiveness_ratings |-> state.effectiveness_ratings,
      safety_flags          |-> state.safety_flags,
      content_retrievals    |-> state.content_retrievals,
      dynamic_content_used  |-> state.dynamic_content_used ]

\* C11: a continue call with non-crisis text on an instance whose
\* current_step is already at or past the number of steps returns the
\* completion reply and leaves current_step, the responses, the ratings, the
\* safety flags and the retrieval counters of the instance as they were.
C11_TerminalAbsorbing ==
    [][\A u \in Users, inp \in Inputs, found \in BOOLEAN :
          ( /\ Active(u)
            /\ Instance(u).state.current_step >= NumSteps(Instance(u).scenario)
            /\ inp.crisis_level = "none"
            /\ Continues(u, inp, found) )
          => /\ reply'.response.kind = "completed"
             /\ reply'.monitoring.current_step - 1 = Instance(u).state.current_step
             /\ EngineFields(process_user_input(Instance(u), inp, found).flow.state)
                  = EngineFields(Instance(u).state)
      ]_vars

\* the call before this step was a continue call for u that returned the
\* completion reply
JustCompleted(u) ==
    /\ reply.op = "continue"
    /\ reply.user_id = u
    /\ reply.response.flow_completed

\* C12 (as claimed): a continue call with non-crisis text that follows the
\* completing call returns the same completion reply and appends no second
\* snapshot.
C12_SameCompletionReply ==
    [][\A u \in Users, inp \in Inputs, found \in BOOLEAN :
          ( /\ JustCompleted(u)
            /\ inp.crisis_level = "none"
            /\ Continues(u, inp, found) )
          => /\ reply'.response = reply.response
             /\ clinical_outcomes' = clinical_outcomes
      ]_vars

\* C12 (amended): a continue call with non-crisis text that follows the
\* completing call returns the no-active-flow reply, not the completion
\* reply, and changes neither the outcome history nor the rest of the
\* registry.
C12_RestartReplyAfterCompletion ==
    [][\A u \in Users, inp \in Inputs, found \in BOOLEAN :
          ( /\ JustCompleted(u)
            /\ inp.crisis_level = "none"
            /\ Continues(u, inp, found) )
          => /\ reply'.response.kind = "no_active_flow"
             /\ ~reply'.response.flow_completed
             /\ clinical_outcomes' = clinical_outcomes
             /\ UNCHANGED <<active_flows, session_history>>
      ]_vars

\* a pre-event flow ran to its completion reply and the user sent one more
\* text
C12_Witness ==
    /\ reply.op = "continue"
    /\ reply.response.kind = "no_active_flow"
    /\ ~Active("u1")
    /\ "u1" \in DOMAIN clinical_outcomes
    /\ Len(clinical_outcomes["u1"]) = 1
    /\ clinical_outcomes["u1"][1].scenario = "pre_event"
    /\ session_history["u1"] =
         <<"rag_flow_started", "rag_response_processed", "rag_response_processed",
           "rag_response_processed", "rag_response_processed", "rag_session_completed">>

(***************************************************************************)
(* Round trips: a flow started for a user without one, without crisis      *)
(* context, and answered only with non-crisis replies that advance the step *)
(***************************************************************************)
MaxRoundTrips == 2

RoundTripStart(user_id, flow_name, found) ==
    /\ user_id \notin DOMAIN active_flows
    /\ Len(Get(clinical_outcomes, user_id, <<>>)) < MaxRoundTrips
    /\ flow_name \in DOMAIN clinical_flow_registry
    /\ start_clinical_flow(user_id, flow_name, FALSE, FALSE, found)
    /\ UNCHANGED chat_vars

RoundTripReply(user_id, inp, found) ==
    /\ user_id \in DOMAIN active_flows
    /\ ~Flagged(inp)
    /\ process_clinical_response(user_id, inp, found)
    /\ reply'.response.kind # "raised"
    /\ reply'.response.advance_step # "False"
    /\ UNCHANGED chat_vars

RoundTripNext ==
    \/ \E u \in Users, name \in FlowNames, found \in BOOLEAN :
          RoundTripStart(u, name, found)
    \/ \E u \in Users, inp \in Inputs, found \in BOOLEAN :
          RoundTripReply(u, inp, found)

SpecRoundTrip == Init /\ [][RoundTripNext]_vars

\* C13: a round trip of advancing non-crisis replies ends with a recorded
\* outcome whose completion_rate is 1.0 (completion_num = total_steps) and
\* an instance whose completion_status is "completed".
C13_RoundTripCompletes ==
    [][\A u \in Users, inp \in Inputs, found \in BOOLEAN :
          ( /\ reply'.op = "continue"
            /\ reply'.response.flow_completed
            /\ RoundTripReply(u, inp, found) )
          => /\ Len(Snapshots(u)') = Len(Snapshots(u)) + 1
             /\ LastOf(Snapshots(u)').completion_num = LastOf(Snapshots(u)').total_steps
             /\ process_user_input(Instance(u), inp, found).flow.state.completion_status
                  = "completed" ]_vars

\* C14: for every scenario, a freshly started flow has current_step = 0 and
\* the first reply returned by start carries step_info.current_step = 1.
C14_FreshFlowStepOne ==
    \A u \in Users :
        ( /\ reply.op = "start"
          /\ reply.user_id = u
          /\ reply.response.kind = "step" )
        => /\ Active(u)
           /\ Instance(u).state.current_step = 0
           /\ reply.response.step_info.current_step = 1

\* C15 (as stated): for every flow name not in the registry, every context
\* and every prior registry state, start returns the error reply listing the
\* available flow names, creates no instance and leaves the active flows
\* unchanged.
C15_UnknownNameErrorReply ==
    [][\A u \in Users, name \in FlowNames \ DOMAIN clinical_flow_registry,
          has_text \in BOOLEAN, crisis \in ContextCrisis, found \in BOOLEAN :
          Starts(u, name, has_text, crisis, found)
          => /\ reply'.response.kind = "unknown_flow"
             /\ reply'.response.available_flows = DOMAIN clinical_flow_registry
             /\ active_flows' = active_flows ]_vars

\* C15 (amended): the same, for a context that holds no crisis-level text.
C15_UnknownNameErrorReplyWithoutCrisis ==
    [][\A u \in Users, name \in FlowNames \ DOMAIN clinical_flow_registry,
          has_text \in BOOLEAN, crisis \in ContextCrisis, found \in BOOLEAN :
          ( /\ ~(has_text /\ crisis)
            /\ Starts(u, name, has_text, crisis, found) )
          => /\ reply'.response.kind = "unknown_flow"
             /\ reply'.response.available_flows = DOMAIN clinical_flow_registry
             /\ active_flows' = active_flows
             /\ clinical_outcomes' = clinical_outcomes ]_vars

\* an unknown name was refused while the user's flow, two steps in, stayed
C15_Witness ==
    /\ reply.op = "start"
    /\ reply.response.kind = "unknown_flow"
    /\ reply.response.available_flows = DOMAIN clinical_flow_registry
    /\ Active("u1")
    /\ Instance("u1").state.current_step = 2

\* C16 (as stated): continue for a user with no active flow returns the
\* recoverable "no active flow, restart" reply instead of raising, creates no
\* flow instance and appends no outcome snapshot.
C16_NoActiveFlowRestartReply ==
    [][\A u \in Users, inp \in Inputs, found \in BOOLEAN :
          ( /\ ~Active(u)
            /\ Continues(u, inp, found) )
          => /\ reply'.response.kind = "no_active_flow"
             /\ active_flows' = active_flows
             /\ clinical_outcomes' = clinical_outcomes ]_vars

\* C16 (amended): the same, for a continue call whose text is not
\* crisis-level.
C16_NoActiveFlowRestartReplyWithoutCrisis ==
    [][\A u \in Users, inp \in Inputs, found \in BOOLEAN :
          ( /\ ~Active(u)
            /\ ~Flagged(inp)
            /\ Continues(u, inp, found) )
          => /\ reply'.response.kind = "no_active_flow"
             /\ active_flows' = active_flows
             /\ clinical_outcomes' = clinical_outcomes ]_vars

\* a continue call for a user the manager has never seen was answered with
\* the restart reply
C16_Witness ==
    /\ reply.op = "continue"
    /\ reply.user_id = "u1"
    /\ reply.response.kind = "no_active_flow"
    /\ active_flows = EmptyDict
    /\ clinical_outcomes = EmptyDict
    /\ session_history = EmptyDict

\* the resources the specification calls core: emergency services, a 24/7
\* crisis text line, a suicide-prevention line
CoreResources ==
    {"Emergency Services", "Crisis Text Line", "National Suicide Prevention Lifeline"}

\* C17: every crisis reply contains the core resources, whether the lookup
\* for extra crisis resources succeeds, returns nothing or raises: the
\* manager's reply to a start or continue call, and every crisis reply the
\* engine of an active flow can give.
C17_CrisisReplyHasCoreResources ==
    /\ reply.response.kind = "crisis"
          => CoreResources \subseteq reply.response.crisis_resources
    /\ \A outcome \in SearchOutcomes :
          CoreResources \subseteq crisis_response(outcome).crisis_resources
    /\ \A u \in DOMAIN active_flows, inp \in Inputs, found \in BOOLEAN :
          process_user_input(Instance(u), inp, found).response.kind = "crisis"
          => CoreResources \subseteq
                process_user_input(Instance(u), inp, found).response.crisis_resources

\* a crisis reply was given in the middle of a flow without any additional
\* resource from the lookup
C17_Witness ==
    /\ reply.op = "continue"
    /\ reply.response.kind = "crisis"
    /\ reply.response.crisis_resources =
          CoreResources \cup {"National Alliance on Mental Illness"}
    /\ Len(Get(session_history, "u1", <<>>)) >= 2

(***************************************************************************)
(* The server: chat_endpoint coroutines on the event loop of one process   *)
(***************************************************************************)
MaxRequests == 3

ChatInputs ==
    { Analyse(t) : t \in { <<"o", "k">>, <<"3">>,
                           <<"H", "o", "p", "e", "l", "e", "s", "s">> } }

\* AnxietyBotPipeline.process_message, as far as the manager is concerned:
\* crisis override, else continue an active flow, else start the routed flow
process_message(user_id, inp, flow_name, found) ==
    IF Flagged(inp)
    THEN LET c == activate_crisis_override(active_flows, session_history, user_id)
         IN  /\ active_flows' = c.active_flows
             /\ session_history' = c.session_history
             /\ clinical_outcomes' = clinical_outcomes
             /\ \E response \in CrisisReplies :
                   reply' = Returned("start", user_id, response, NoMonitoring)
    ELSE IF user_id \in DOMAIN active_flows
    THEN process_clinical_response(user_id, inp, found)
    ELSE start_clinical_flow(user_id, flow_name, TRUE, FALSE, found)

\* AnxietyBotPipeline.continue_conversation
continue_conversation(user_id, inp, flow_name, found) ==
    IF user_id \notin DOMAIN active_flows
    THEN process_message(user_id, inp, flow_name, found)
    ELSE process_clinical_response(user_id, inp, found)

\* a server that runs its handlers on threads, each as soon as it is accepted
loop_is_free_threaded == TRUE

\* The event loop starts a coroutine only when no other is running:
\* chat_endpoint is an async def without an await, so once started it runs to
\* its return before the loop takes the next request.
loop_is_free == \A t \in DOMAIN in_flight : in_flight[t].pc # "running"

\* the server accepts a POST /chat request
Accept(user_id, inp, flow_name, found) ==
    /\ accepted < MaxRequests
    /\ accepted' = accepted + 1
    /\ in_flight' = Put(in_flight, accepted + 1,
                        [ user_id |-> user_id, inp |-> inp, flow_name |-> flow_name,
                          found |-> found, pc |-> "ready", active |-> FALSE ])
    /\ UNCHANGED <<manager_vars, result, probe_vars>>

\* the loop starts the handler of request t, which looks the user up in
\* active_flows
Dispatch(t) ==
    /\ t \in DOMAIN in_flight
    /\ in_flight[t].pc = "ready"
    /\ loop_is_free
    /\ in_flight' = [in_flight EXCEPT
                        ![t].pc = "running",
                        ![t].active = in_flight[t].user_id \in DOMAIN active_flows]
    /\ UNCHANGED <<accepted, result, probe_vars, active_flows, clinical_outcomes, session_history, reply>>

\* the handler of request t makes the call it chose and returns
Finish(t) ==
    /\ t \in DOMAIN in_flight
    /\ in_flight[t].pc = "running"
    /\ IF in_flight[t].active
       THEN continue_conversation(in_flight[t].user_id, in_flight[t].inp,
                                  in_flight[t].flow_name, in_flight[t].found)
       ELSE process_message(in_flight[t].user_id, in_flight[t].inp,
                            in_flight[t].flow_name, in_flight[t].found)
    /\ in_flight' = Del(in_flight, t)
    /\ UNCHANGED <<accepted, result, probe_vars>>

ChatNext ==
    \/ \E u \in Users, inp \in ChatInputs, name \in {"general_anxiety_flow", "pre_event_flow"}, found \in BOOLEAN :
          Accept(u, inp, name, found)
    \/ \E t \in 1..MaxRequests : Dispatch(t)
    \/ \E t \in 1..MaxRequests : Finish(t)

SpecChat == Init /\ [][ChatNext]_vars

\* the requests of user u whose handler has started and not returned
Running(u) ==
    { t \in DOMAIN in_flight : in_flight[t].user_id = u /\ in_flight[t].pc = "running" }

\* C18: concurrent requests of one user are serialized.  At most one call of
\* a user is in flight at any time, and every call acts on the registry state
\* its handler saw when it started (so the turns equal a serial order and no
\* two turns work on the same current_step).
C18_SameUserSerialized ==
    /\ \A u \in Users : Cardinality(Running(u)) <= 1
    /\ \A u \in Users : \A t \in Running(u) :
          in_flight[t].active = (u \in DOMAIN active_flows)

\* a second and a third request of the user wait while the first one's
\* handler, which found an active flow, is running
C18_Witness ==
    /\ Cardinality(DOMAIN in_flight) = 2
    /\ Cardinality(Running("u1")) = 1
    /\ \E t \in Running("u1") : in_flight[t].active
    /\ Active("u1")
    /\ accepted = MaxRequests

(***************************************************************************)
(* Two users of one manager                                                *)
(***************************************************************************)
MaxTwoUserEvents == 4

Users2 == {"u1", "u2"}

TwoUserStart(user_id, flow_name, has_text, crisis, found) ==
    /\ Events < MaxTwoUserEvents
    /\ start_clinical_flow(user_id, flow_name, has_text, crisis, found)
    /\ UNCHANGED chat_vars

TwoUserContinue(user_id, inp, found) ==
    /\ (Flagged(inp) \/ user_id \in DOMAIN active_flows) => Events < MaxTwoUserEvents
    /\ process_clinical_response(user_id, inp, found)
    /\ UNCHANGED chat_vars

TwoUserEnd(user_id) ==
    /\ user_id \in DOMAIN active_flows => Events < MaxTwoUserEvents
    /\ end_user_session(user_id)
    /\ UNCHANGED chat_vars

TwoUserNext ==
    \/ \E u \in Users2, name \in {"pre_event_flow", "general_anxiety_flow", "bogus_flow"}, has_text \in BOOLEAN,
          crisis \in ContextCrisis, found \in BOOLEAN :
          TwoUserStart(u, name, has_text, crisis, found)
    \/ \E u \in Users2, inp \in ChatInputs, found \in BOOLEAN :
          TwoUserContinue(u, inp, found)
    \/ \E u \in Users2 : TwoUserEnd(u)

SpecTwoUsers == Init /\ [][TwoUserNext]_vars

\* what a dict holds for a key: nothing, or one entry
SlotOf(dict, key) == IF key \in DOMAIN dict THEN <<dict[key]>> ELSE <<>>

\* C19: flows of distinct users are independent.  Any start, continue,
\* crisis-override, finalize or end-session operation for user A leaves user
\* B's active flow, B's outcome history and B's session log unchanged, for
\* all A # B.
C19_DistinctUsersIndependent ==
    [][\A a \in Users2, b \in Users2 :
          ( /\ a # b
            /\ reply'.user_id = a )
          => /\ SlotOf(active_flows', b) = SlotOf(active_flows, b)
             /\ SlotOf(clinical_outcomes', b) = SlotOf(clinical_outcomes, b)
             /\ SlotOf(session_history', b) = SlotOf(session_history, b) ]_vars

\* u1's flow was removed by a crisis override while u2's flow, one step in,
\* is still active
C19_Witness ==
    /\ reply.user_id = "u1"
    /\ reply.response.kind = "crisis"
    /\ "u1" \in DOMAIN session_history
    /\ Len(session_history["u1"]) = 2
    /\ session_history["u1"][1] = "rag_flow_started"
    /\ "u2" \in DOMAIN active_flows
    /\ active_flows["u2"].flow_instance.state.current_step = 1

(***************************************************************************)
(* Calls in which the content retriever raises                             *)
(***************************************************************************)
\* start_flow asks the retriever for content: GeneralAnxietyFlow.start_flow
\* always, the others when the first step's message is the retrieved content
start_flow_calls_retriever(flow) ==
    \/ flow.scenario = "general_anxiety"
    \/ start_flow(flow, FALSE, FALSE, TRUE).response.message
          # start_flow(flow, FALSE, FALSE, FALSE).response.message

\* the step logic asks the retriever for content: the steps whose message is
\* the retrieved content itself
process_user_input_calls_retriever(flow, inp) ==
    process_user_input(flow, inp, TRUE).response.message
       # process_user_input(flow, inp, FALSE).response.message

\* start_clinical_flow when start_flow raises: the slot is stored and the
\* start is logged before start_flow is called
start_clinical_flow_raises(user_id, flow_name) ==
    /\ flow_name \in DOMAIN clinical_flow_registry
    /\ start_flow_calls_retriever(NewFlow(clinical_flow_registry[flow_name]))
    /\ \E history0 \in {IF user_id \in DOMAIN session_history THEN session_history
                        ELSE Put(session_history, user_id, <<>>)} :
          /\ active_flows' =
                Put(active_flows, user_id,
                    FlowData(NewFlow(clinical_flow_registry[flow_name]), flow_name,
                             Len(history0[user_id])))
          /\ session_history' = log_clinical_event(history0, user_id, "rag_flow_started")
    /\ clinical_outcomes' = clinical_outcomes
    /\ reply' = Returned("start", user_id, [Reply EXCEPT !.kind = "raised"], NoMonitoring)

StartClinicalFlowRaises(user_id, flow_name) ==
    /\ Events < MaxEvents
    /\ start_clinical_flow_raises(user_id, flow_name)
    /\ UNCHANGED chat_vars

\* process_clinical_response when the step logic raises: nothing is caught
\* between the flow and the pipeline
\* The base class has recorded the reply in user_responses before it runs
\* the step logic; GeneralAnxietyFlow records nothing.
process_clinical_response_raises(user_id, inp) ==
    /\ user_id \in DOMAIN active_flows
    /\ ~Flagged(inp)
    /\ process_user_input_calls_retriever(active_flows[user_id].flow_instance, inp)
    /\ active_flows' =
          [active_flows EXCEPT ![user_id].flow_instance =
              IF @.scenario = "general_anxiety" THEN @
              ELSE [@ EXCEPT !.state.user_responses =
                        @ \cup {active_flows[user_id].flow_instance.state.current_step}]]
    /\ UNCHANGED <<clinical_outcomes, session_history>>
    /\ reply' = Returned("continue", user_id, [Reply EXCEPT !.kind = "raised"],
                         NoMonitoring)

ProcessClinicalResponseRaises(user_id, inp) ==
    /\ process_clinical_response_raises(user_id, inp)
    /\ UNCHANGED chat_vars

FaultNext ==
    \/ Next
    \/ \E u \in Users, name \in FlowNames : StartClinicalFlowRaises(u, name)
    \/ \E u \in Users, inp \in Inputs : ProcessClinicalResponseRaises(u, inp)

SpecFaults == Init /\ [][FaultNext]_vars

\* C20: a turn is atomic with respect to the registry.  If a start or
\* continue call raises, the registry and the user's flow instance are
\* exactly as they were before the turn: no active slot is created, removed
\* or left partially mutated.
C20_RaisingTurnChangesNothing ==
    [][ reply'.response.kind = "raised"
        => /\ active_flows' = active_flows
           /\ clinical_outcomes' = clinical_outcomes ]_vars

(***************************************************************************)
(* The pipeline: what process_message and continue_conversation return     *)
(***************************************************************************)
MaxTurns == 4

\* the three strings handle_pipeline_error puts into safety_resources
MinimalSafetyResources ==
    { "National Suicide Prevention Lifeline: 988",
      "Crisis Text Line: Text HOME to 741741",
      "Emergency Services: 911" }

\* an error handler that does not look at the text again
handle_pipeline_error_without_recheck(inp) ==
    [ kind |-> "error", message |-> "generic_error", flow_type |-> "error_support",
      has_safety |-> TRUE, crisis_detected |-> FALSE,
      safety_resources |-> MinimalSafetyResources,
      emergency_protocols |-> FALSE, error_occurred |-> TRUE, flow_active |-> FALSE ]

\* AnxietyBotPipeline.handle_pipeline_error: the crisis check runs again on
\* the turn's text; the fallback message is replaced by the crisis message
\* when it detects a crisis
handle_pipeline_error(inp) ==
    [ kind |-> "error",
      message |-> IF Flagged(inp) THEN "crisis_error" ELSE "generic_error",
      flow_type |-> IF Flagged(inp) THEN "crisis_override" ELSE "error_support",
      has_safety |-> TRUE, crisis_detected |-> Flagged(inp),
      safety_resources |-> MinimalSafetyResources,
      emergency_protocols |-> Flagged(inp), error_occurred |-> TRUE,
      flow_active |-> FALSE ]

\* the response process_message assembles from the manager's reply (step 7)
complete_response(response, selected_flow, crisis_detected, flow_active) ==
    [ kind |-> "ok", message |-> IF response.message THEN "reply" ELSE "none",
      flow_type |-> IF response.flow_type = "absent" THEN selected_flow
                    ELSE response.flow_type,
      has_safety |-> TRUE, crisis_detected |-> crisis_detected,
      safety_resources |-> response.crisis_resources,
      emergency_protocols |-> response.immediate_escalation,
      error_occurred |-> FALSE, flow_active |-> flow_active ]

\* the response continue_conversation builds around the manager's reply: it
\* has no safety section
continued_response(response, flow_active) ==
    [ kind |-> "ok", message |-> IF response.message THEN "reply" ELSE "none",
      flow_type |-> response.flow_type,
      has_safety |-> FALSE, crisis_detected |-> FALSE, safety_resources |-> {},
      emergency_protocols |-> FALSE, error_occurred |-> FALSE,
      flow_active |-> flow_active ]

\* the faults a turn can meet: none, a classifier (intent, emotion,
\* personalizer, router) raises, the content source raises
PipelineFaults == {"none", "classifier", "content_source"}

\* AnxietyBotPipeline.process_message with its except clause
pipeline_process_message(user_id, inp, flow_name, found, fault) ==
    IF fault = "classifier"
    THEN /\ UNCHANGED manager_vars
         /\ result' = handle_pipeline_error(inp)
    ELSE /\ IF Flagged(inp)
            THEN process_message(user_id, inp, flow_name, found)
            ELSE IF user_id \in DOMAIN active_flows
            THEN IF /\ fault = "content_source"
                    /\ process_user_input_calls_retriever(
                           active_flows[user_id].flow_instance, inp)
                 THEN process_clinical_response_raises(user_id, inp)
                 ELSE process_clinical_response(user_id, inp, found)
            ELSE IF /\ fault = "content_source"
                    /\ start_flow_calls_retriever(NewFlow(clinical_flow_registry[flow_name]))
                 THEN start_clinical_flow_raises(user_id, flow_name)
                 ELSE start_clinical_flow(user_id, flow_name, TRUE, FALSE, found)
         /\ result' = IF reply'.response.kind = "raised"
                      THEN handle_pipeline_error(inp)
                      ELSE complete_response(reply'.response, flow_name, Flagged(inp),
                                             user_id \in DOMAIN active_flows')

\* AnxietyBotPipeline.continue_conversation with its except clause.  The
\* turn is stored with response['clinical_response']['step_info'], which a
\* reply without step_info answers with a KeyError.
pipeline_continue_conversation(user_id, inp, flow_name, found, fault) ==
    IF user_id \notin DOMAIN active_flows
    THEN pipeline_process_message(user_id, inp, flow_name, found, fault)
    ELSE /\ IF /\ fault = "content_source"
               /\ ~Flagged(inp)
               /\ process_user_input_calls_retriever(
                      active_flows[user_id].flow_instance, inp)
            THEN process_clinical_response_raises(user_id, inp)
            ELSE process_clinical_response(user_id, inp, found)
         /\ result' = IF \/ reply'.response.kind = "raised"
                         \/ reply'.response.step_info = NoStepInfo
                      THEN handle_pipeline_error(inp)
                      ELSE continued_response(reply'.response,
                                              user_id \in DOMAIN active_flows')

\* the flows the scenario router picks in this model
PipelineFlows == {"general_anxiety_flow", "isolation_flow", "acute_anxiety_flow"}

\* one turn through process_message
ProcessMessage(user_id, inp, flow_name, found, fault) ==
    /\ accepted < MaxTurns
    /\ accepted' = accepted + 1
    /\ pipeline_process_message(user_id, inp, flow_name, found, fault)
    /\ UNCHANGED <<in_flight, probe_vars>>

\* one turn through continue_conversation
ContinueConversation(user_id, inp, flow_name, found, fault) ==
    /\ accepted < MaxTurns
    /\ accepted' = accepted + 1
    /\ pipeline_continue_conversation(user_id, inp, flow_name, found, fault)
    /\ UNCHANGED <<in_flight, probe_vars>>

PipelineNext ==
    \/ \E u \in Users, inp \in ChatInputs, name \in PipelineFlows, found \in BOOLEAN,
          fault \in PipelineFaults : ProcessMessage(u, inp, name, found, fault)
    \/ \E u \in Users, inp \in ChatInputs, name \in PipelineFlows, found \in BOOLEAN,
          fault \in PipelineFaults : ContinueConversation(u, inp, name, found, fault)

SpecPipeline == Init /\ [][PipelineNext]_vars

\* C21: every turn through the pipeline returns a well-formed reply with a
\* message, also when a classifier or the content source raises; the reply
\* of a failed turn carries the minimal safety-resource list and the generic
\* supportive message (the crisis message when the text is a crisis one).
C21_EveryTurnHasMessage ==
    result.kind # "none"
    => /\ result.message # "none"
       /\ result.error_occurred
          => /\ result.safety_resources = MinimalSafetyResources
             /\ ~result.crisis_detected => result.message = "generic_error"

\* C22: on the error-recovery path the crisis check has run on the turn's
\* text, and a detected crisis gives the crisis message with flow_type
\* crisis_override and the emergency protocols set, never the generic
\* fallback message.
C22_CrisisPrecedesErrorFallback ==
    [][ \A u \in Users, inp \in ChatInputs, name \in PipelineFlows, found \in BOOLEAN,
           fault \in PipelineFaults :
           /\ \/ ProcessMessage(u, inp, name, found, fault)
              \/ ContinueConversation(u, inp, name, found, fault)
           /\ result'.error_occurred
           => /\ result'.crisis_detected = Flagged(inp)
              /\ Flagged(inp)
                 => /\ result'.message = "crisis_error"
                    /\ result'.flow_type = "crisis_override"
                    /\ result'.emergency_protocols ]_vars

\* a classifier raised on a turn whose text is a crisis one, and the turn was
\* answered with the crisis message of the error path
C22_Witness ==
    /\ result.error_occurred
    /\ result.crisis_detected
    /\ result.message = "crisis_error"
    /\ result.flow_type = "crisis_override"
    /\ result.emergency_protocols
    /\ accepted >= 2

\* C23: for every scenario flow, the general fallback included, an input
\* processed on an instance whose current_step is at or past the end of its
\* steps is answered with the completion reply; the call never raises an
\* out-of-range fault.  (Inputs without crisis-level text: those are answered
\* by the crisis protocol.)
C23_PastLastStepCompletes ==
    \A u \in DOMAIN active_flows, inp \in Inputs, found \in BOOLEAN :
        /\ Instance(u).state.current_step >= NumSteps(Instance(u).scenario)
        /\ ~Flagged(inp)
        => /\ process_user_input(Instance(u), inp, found).response.kind # "raised"
           /\ process_user_input(Instance(u), inp, found).response.kind = "completed"

\* C24: the outcome snapshot records completion_rate =
\* min(current_step, total_steps) / total_steps, current_step being the
\* number of steps the instance has advanced past when the snapshot is
\* written.  Stated for the snapshot of a session end, where the instance is
\* the one of the state before; a flow ended right after its start records 0.
C24_CompletionRateOfSnapshot ==
    [][ \A u \in Users :
           /\ Active(u)
           /\ reply'.op = "complete"
           /\ reply'.user_id = u
           /\ SnapshotAppended(u)
           => /\ LastOf(clinical_outcomes'[u]).total_steps = NumSteps(Instance(u).scenario)
              /\ LastOf(clinical_outcomes'[u]).completion_num =
                    Min(Instance(u).state.current_step, NumSteps(Instance(u).scenario)) ]_vars

(***************************************************************************)
(* Monitoring: get_clinical_flow_status                                    *)
(***************************************************************************)
\* a status call that takes the flow out of the registry as it reads it
get_clinical_flow_status_consuming(flows, user_id) ==
    [ active_flows |-> Del(flows, user_id),
      status |-> IF user_id \in DOMAIN flows
                 THEN [NoStatus EXCEPT !.present = TRUE,
                                       !.flow_name = flows[user_id].flow_name]
                 ELSE NoStatus ]

\* ClinicalFlowManager.get_clinical_flow_status: the registry after the call
\* and the value returned
get_clinical_flow_status(flows, user_id) ==
    [ active_flows |-> flows,
      status |->
        IF user_id \in DOMAIN flows
        THEN [ present |-> TRUE,
               flow_name |-> flows[user_id].flow_name,
               scenario |-> flows[user_id].flow_instance.scenario,
               current_step |-> flows[user_id].flow_instance.state.current_step + 1,
               total_steps |-> NumSteps(flows[user_id].flow_instance.scenario),
               current_intervention |->
                   IF flows[user_id].flow_instance.state.current_step
                         < NumSteps(flows[user_id].flow_instance.scenario)
                   THEN StepAt(flows[user_id].flow_instance.scenario,
                               flows[user_id].flow_instance.state.current_step).intervention
                   ELSE "completed",
               safety_flags |-> flows[user_id].flow_instance.state.safety_flags,
               effectiveness_ratings |->
                   flows[user_id].flow_instance.state.effectiveness_ratings,
               completion_num |->
                   Min(flows[user_id].flow_instance.state.current_step + 1,
                       NumSteps(flows[user_id].flow_instance.scenario)),
               rag_retrievals |-> flows[user_id].rag_retrievals,
               dynamic_content_active |-> flows[user_id].dynamic_content_used ]
        ELSE NoStatus ]

\* a monitoring caller asks for the status of user_id
GetClinicalFlowStatus(user_id) ==
    /\ active_flows' = get_clinical_flow_status(active_flows, user_id).active_flows
    /\ flow_status' = get_clinical_flow_status(active_flows, user_id).status
    /\ UNCHANGED <<clinical_outcomes, session_history, reply, in_flight, accepted, result,
                   screen, routing, parsed>>

StatusNext ==
    \/ Next
    \/ \E u \in Users : GetClinicalFlowStatus(u)

SpecStatus == Init /\ [][StatusNext]_vars

\* C25: get_clinical_flow_status is read-only.  A call leaves the active
\* flows and their instances, the outcome history and the session log as
\* they were, whatever the registry state, and returns none exactly when the
\* user has no active flow.
C25_StatusIsReadOnly ==
    [][ \A u \in Users :
           GetClinicalFlowStatus(u)
           => /\ active_flows' = active_flows
              /\ clinical_outcomes' = clinical_outcomes
              /\ session_history' = session_history
              /\ flow_status'.present = Active(u)
              /\ ~Active(u) => flow_status' = NoStatus ]_vars

\* the status of a flow that has advanced was read, and the flow is still
\* there
C25_Witness ==
    /\ flow_status.present
    /\ flow_status.current_step >= 2
    /\ Active("u1")
    /\ flow_status.flow_name = active_flows["u1"].flow_name
    /\ flow_status.current_step = Instance("u1").state.current_step + 1

(***************************************************************************)
(* The crisis screens: CrisisDetector and ScenarioRouter.detect_crisis     *)
(***************************************************************************)
MaxScreenWords == 2

\* ScenarioRouter.crisis_patterns
crisis_patterns_high_risk ==
    { <<"w", "a", "n", "t", " ", "t", "o", " ", "d", "i", "e">>,
      <<"w", "a", "n", "n", "a", " ", "d", "i", "e">>,
      <<"w", "i", "s", "h", " ", "i", " ", "w", "a", "s", " ", "d", "e", "a", "d">>,
      <<"k", "i", "l", "l", " ", "m", "y", "s", "e", "l", "f">>,
      <<"k", "i", "l", "l", "i", "n", "g", " ", "m", "y", "s", "e", "l", "f">>,
      <<"e", "n", "d", " ", "m", "y", " ", "l", "i", "f", "e">>,
      <<"s", "u", "i", "c", "i", "d", "e">>,
      <<"s", "u", "i", "c", "i", "d", "a", "l", " ", "t", "h", "o", "u", "g", "h", "t", "s">>,
      <<"s", "u", "i", "c", "i", "d", "a", "l">>,
      <<"b", "e", "t", "t", "e", "r", " ", "o", "f", "f", " ", "d", "e", "a", "d">>,
      <<"w", "o", "r", "l", "d", " ", "b", "e", "t", "t", "e", "r", " ", "w", "i", "t", "h", "o", "u", "t", " ", "m", "e">>,
      <<"n", "o", " ", "p", "o", "i", "n", "t", " ", "l", "i", "v", "i", "n", "g">>,
      <<"n", "o", " ", "r", "e", "a", "s", "o", "n", " ", "t", "o", " ", "l", "i", "v", "e">>,
      <<"e", "n", "d", " ", "i", "t", " ", "a", "l", "l">>,
      <<"e", "n", "d", "i", "n", "g", " ", "i", "t", " ", "a", "l", "l">> }

crisis_patterns_medium_risk ==
    { <<"c", "a", "n", "'", "t", " ", "g", "o", " ", "o", "n">>,
      <<"c", "a", "n", "n", "o", "t", " ", "g", "o", " ", "o", "n">>,
      <<"g", "i", "v", "e", " ", "u", "p">>,
      <<"h", "o", "p", "e", "l", "e", "s", "s">>,
      <<"n", "o", " ", "h", "o", "p", "e">>,
      <<"n", "o", "t", "h", "i", "n", "g", " ", "l", "e", "f", "t">>,
      <<"c", "a", "n", "'", "t", " ", "t", "a", "k", "e", " ", "i", "t", " ", "a", "n", "y", "m", "o", "r", "e">>,
      <<"c", "a", "n", "n", "o", "t", " ", "t", "a", "k", "e", " ", "i", "t">>,
      <<"h", "a", "r", "m", " ", "m", "y", "s", "e", "l", "f">>,
      <<"h", "u", "r", "t", " ", "m", "y", "s", "e", "l", "f">> }

\* a screen that looks at the medium tier first
detect_crisis_medium_first(text) ==
    IF \E p \in crisis_patterns_medium_risk : RegexWholeWord(p, Lower(text)) THEN "medium"
    ELSE IF \E p \in crisis_patterns_high_risk : RegexWholeWord(p, Lower(text)) THEN "high"
    ELSE "none"

\* ScenarioRouter.detect_crisis: the severity it returns
detect_crisis(text) ==
    IF \E p \in crisis_patterns_high_risk : RegexWholeWord(p, Lower(text)) THEN "high"
    ELSE IF \E p \in crisis_patterns_medium_risk : RegexWholeWord(p, Lower(text)) THEN "medium"
    ELSE "none"

\* the words of the texts given to the screens
ScreenVocabulary ==
    { <<"H", "o", "p", "e", "l", "e", "s", "s">>,
      <<"o", "v", "e", "r", "w", "h", "e", "l", "m", "e", "d">>,
      <<"s", "u", "i", "c", "i", "d", "e">>,
      <<"o", "k">>,
      <<"g", "i", "v", "e">>,
      <<"u", "p">>,
      <<"d", "e", "s", "p", "e", "r", "a", "t", "e">>,
      <<"h", "u", "r", "t">>,
      <<"m", "y", "s", "e", "l", "f">>,
      <<"h", "o", "p", "e">> }

RECURSIVE ScreenWordSeqs(_)
ScreenWordSeqs(n) ==
    IF n = 0 THEN { <<>> }
    ELSE { Append(ws, w) : ws \in ScreenWordSeqs(n - 1), w \in ScreenVocabulary }

\* a caller screens a text with both screens
CrisisScreen(text) ==
    /\ screen' = [ text |-> text,
                   crisis_level |-> detect_crisis_level(text),
                   severity |-> detect_crisis(text) ]
    /\ UNCHANGED <<manager_vars, in_flight, accepted, result, flow_status, routing, parsed>>

ScreenNext ==
    \E ws \in UNION { ScreenWordSeqs(n) : n \in 1..MaxScreenWords } :
        CrisisScreen(Join(ws))

SpecCrisisScreen == Init /\ [][ScreenNext]_vars

\* some pattern of the tier occurs in the text as whole words
TierMatches(tier, text) == \E p \in tier : RegexWholeWord(p, Lower(text))

\* C26: precedence of the crisis screen.  For every text the level is high
\* if a high-tier pattern matches, whatever the medium tier says, medium if
\* no high-tier and some medium-tier pattern matches, none otherwise; the
\* level is that function of the text whatever was screened before.  Holds
\* for CrisisDetector and for the router's detect_crisis, each with its tiers.
C26_HighBeforeMedium ==
    screen # NoScreen
    => /\ TierMatches(high_risk_patterns, screen.text) => screen.crisis_level = "high"
       /\ /\ ~TierMatches(high_risk_patterns, screen.text)
          /\ TierMatches(medium_risk_patterns, screen.text)
          => screen.crisis_level = "medium"
       /\ /\ ~TierMatches(high_risk_patterns, screen.text)
          /\ ~TierMatches(medium_risk_patterns, screen.text)
          => screen.crisis_level = "none"
       /\ TierMatches(crisis_patterns_high_risk, screen.text) => screen.severity = "high"
       /\ /\ ~TierMatches(crisis_patterns_high_risk, screen.text)
          /\ TierMatches(crisis_patterns_medium_risk, screen.text)
          => screen.severity = "medium"
       /\ /\ ~TierMatches(crisis_patterns_high_risk, screen.text)
          /\ ~TierMatches(crisis_patterns_medium_risk, screen.text)
          => screen.severity = "none"

\* a text with a high-tier and a medium-tier pattern of the router ("suicide
\* Hopeless") was screened as high
C26_Witness ==
    /\ TierMatches(crisis_patterns_high_risk, screen.text)
    /\ TierMatches(crisis_patterns_medium_risk, screen.text)
    /\ screen.severity = "high"
    /\ screen.crisis_level = "high"

(***************************************************************************)
(* ScenarioRouter.route_scenario                                           *)
(***************************************************************************)
MaxIntents == 2
MaxEmotions == 2

\* ScenarioRouter.scenario_to_flow
scenario_to_flow ==
    [ panic |-> "acute_anxiety_flow", sleep |-> "nighttime_flow",
      isolation |-> "isolation_flow", pre_event |-> "pre_event_flow",
      uncertainty |-> "uncertainty_flow", decision_making |-> "decision_making_flow",
      physical_triggers |-> "physical_triggers_flow" ]

\* scores are hundredths: 80 is 0.8
SeqMax(scores) == CHOOSE m \in {scores[i] : i \in 1..Len(scores)} :
                      \A i \in 1..Len(scores) : scores[i] <= m

\* max(intent_scores, key=intent_scores.get): the first key, in the order of
\* the dict, that has the highest score
top_scenario(intent_scores) ==
    intent_scores[CHOOSE i \in 1..Len(intent_scores) :
                     /\ \A j \in 1..Len(intent_scores) :
                           intent_scores[j].score <= intent_scores[i].score
                     /\ \A j \in 1..(i - 1) :
                           intent_scores[j].score < intent_scores[i].score].scenario

\* thresholds that leave the boundary values in the lower class
intensity_of_strict(intensity_score) ==
    IF intensity_score > 80 THEN "high"
    ELSE IF intensity_score > 50 THEN "medium"
    ELSE "low"

\* the intensity route_scenario estimates from the highest emotion score
intensity_of(intensity_score) ==
    IF intensity_score >= 80 THEN "high"
    ELSE IF intensity_score >= 50 THEN "medium"
    ELSE "low"

\* ScenarioRouter.route_scenario: the selected flow and the metadata fields
route_scenario(intent_scores, emotion_scores, text) ==
    IF detect_crisis(text) # "none"
    THEN [ intent_scores |-> intent_scores, emotion_scores |-> emotion_scores,
           selected_flow |-> IF detect_crisis(text) = "high"
                             THEN "crisis_emergency_flow" ELSE "crisis_support_flow",
           scenario |-> "None", intensity |-> "None", fallback_used |-> FALSE ]
    ELSE IF /\ Len(intent_scores) > 0
            /\ top_scenario(intent_scores) \in DOMAIN scenario_to_flow
    THEN [ intent_scores |-> intent_scores, emotion_scores |-> emotion_scores,
           selected_flow |-> scenario_to_flow[top_scenario(intent_scores)],
           scenario |-> top_scenario(intent_scores),
           intensity |-> intensity_of(IF Len(emotion_scores) > 0
                                      THEN SeqMax(emotion_scores) ELSE 50),
           fallback_used |-> FALSE ]
    ELSE [ intent_scores |-> intent_scores, emotion_scores |-> emotion_scores,
           selected_flow |-> "general_anxiety_flow",
           scenario |-> IF Len(intent_scores) > 0 THEN top_scenario(intent_scores)
                        ELSE "None",
           intensity |-> "None", fallback_used |-> TRUE ]

\* the requests given to the router: intent scores as IntentDetector returns
\* them (a dict over its scenarios, in its order of insertion), the emotion
\* scores, the text
EmotionScoreValues == {0, 49, 50, 79, 80, 100}

IntentDicts ==
    { d \in UNION { [1..n -> [scenario : {"panic", "sleep", "decision_making"},
                              score : {50, 100}]]
                    : n \in 0..MaxIntents } :
        \A i, j \in 1..Len(d) : i # j => d[i].scenario # d[j].scenario }

EmotionDicts == UNION { [1..n -> EmotionScoreValues] : n \in 0..MaxEmotions }

\* a request waits for the router
RoutingInit ==
    /\ active_flows = EmptyDict
    /\ clinical_outcomes = EmptyDict
    /\ session_history = EmptyDict
    /\ reply = Returned("none", "none", Reply, NoMonitoring)
    /\ in_flight = EmptyDict
    /\ accepted = 0
    /\ result = NoResult
    /\ flow_status = NoStatus
    /\ screen \in { [NoScreen EXCEPT !.text = text] : text \in { <<"o", "k">>, <<"H", "o", "p", "e", "l", "e", "s", "s">>,
                      <<"s", "u", "i", "c", "i", "d", "e">> } }
    /\ routing \in { [NoRouting EXCEPT !.intent_scores = intent_scores,
                                       !.emotion_scores = emotion_scores] :
                         intent_scores \in IntentDicts, emotion_scores \in EmotionDicts }
    /\ parsed = NoParsed

\* the router answers the waiting request
RouteScenario ==
    /\ routing.selected_flow = "unset"
    /\ routing' = route_scenario(routing.intent_scores, routing.emotion_scores, screen.text)
    /\ screen' = [ text |-> screen.text,
                   crisis_level |-> detect_crisis_level(screen.text),
                   severity |-> detect_crisis(screen.text) ]
    /\ UNCHANGED <<manager_vars, in_flight, accepted, result, flow_status, parsed>>

\* process_message goes on with the router's answer (step 6): crisis
\* override, or the start of the selected flow with the context of the turn
StartRoutedFlow(user_id, found) ==
    /\ routing.selected_flow # "unset"
    /\ reply.op = "none"
    /\ process_message(user_id, Analyse(screen.text), routing.selected_flow, found)
    /\ UNCHANGED <<in_flight, accepted, result, probe_vars>>

RoutingNext ==
    \/ RouteScenario
    \/ \E u \in Users, found \in BOOLEAN : StartRoutedFlow(u, found)

SpecRouting == RoutingInit /\ [][RoutingNext]_vars

\* C27: routing rule.  For a text the router does not see as a crisis and a
\* scenario with a highest intent score, route_scenario selects the flow of
\* a scenario with the highest intent score, and the intensity is high for a
\* maximum emotion score >= 0.8, medium for >= 0.5 and < 0.8, low below.
C27_TopIntentAndIntensity ==
    /\ routing.selected_flow # "unset"
    /\ screen.severity = "none"
    /\ Len(routing.intent_scores) > 0
    => /\ \E i \in 1..Len(routing.intent_scores) :
             /\ routing.intent_scores[i].scenario = routing.scenario
             /\ \A j \in 1..Len(routing.intent_scores) :
                   routing.intent_scores[j].score <= routing.intent_scores[i].score
       /\ routing.selected_flow = scenario_to_flow[routing.scenario]
       /\ \A m \in EmotionScoreValues :
             /\ \E i \in 1..Len(routing.emotion_scores) : routing.emotion_scores[i] = m
             /\ \A i \in 1..Len(routing.emotion_scores) : routing.emotion_scores[i] <= m
             => routing.intensity = IF m >= 80 THEN "high"
                                    ELSE IF m >= 50 THEN "medium" ELSE "low"

\* a request with two intents, the second the higher, and a highest emotion
\* score of exactly 0.8 was routed to the second scenario's flow with
\* intensity high
C27_Witness ==
    /\ Len(routing.intent_scores) = 2
    /\ routing.intent_scores[1].score < routing.intent_scores[2].score
    /\ routing.intent_scores[2].scenario = "sleep"
    /\ routing.selected_flow = "nighttime_flow"
    /\ Len(routing.emotion_scores) = 2
    /\ SeqMax(routing.emotion_scores) = 80
    /\ routing.intensity = "high"
    /\ screen.severity = "none"

\* C28: the intensity recorded on a started flow instance is the intensity
\* derived from the emotion scores of the start context (a panic flow started
\* with low emotion scores has scenario panic and intensity low), and the
\* reply to the start has requires_input = true.
C28_StartedIntensityFromEmotions ==
    \A u \in Users :
        /\ reply.op = "start"
        /\ reply.user_id = u
        /\ Active(u)
        /\ routing.intensity \in {"high", "medium", "low"}
        => /\ Instance(u).scenario = routing.scenario
           /\ intensity(Instance(u).scenario) = routing.intensity
           /\ reply.response.requires_input = "True"

(***************************************************************************)
(* Conversations in the decision_making flow                               *)
(***************************************************************************)
MaxDecisionEvents == 7

\* "ok", "wrong" (a perfectionism indicator), "or" (an option indicator),
\* "3" (a rating), "Hopeless" (a crisis text)
DecisionInputs ==
    { Analyse(t) : t \in { <<"o", "k">>, <<"w", "r", "o", "n", "g">>, <<"o", "r">>, <<"3">>,
                           <<"H", "o", "p", "e", "l", "e", "s", "s">> } }

\* the user is routed to the decision_making flow
DecisionStart(user_id, has_text, found) ==
    /\ Events < MaxDecisionEvents
    /\ user_id \notin DOMAIN active_flows
    /\ start_clinical_flow(user_id, "decision_making_flow", has_text, FALSE, found)
    /\ UNCHANGED chat_vars

\* the user answers
DecisionReply(user_id, inp, found) ==
    /\ Events < MaxDecisionEvents
    /\ user_id \in DOMAIN active_flows
    /\ process_clinical_response(user_id, inp, found)
    /\ UNCHANGED chat_vars

\* the user ends the session
DecisionEnd(user_id) ==
    /\ Events < MaxDecisionEvents
    /\ user_id \in DOMAIN active_flows
    /\ end_user_session(user_id)
    /\ UNCHANGED chat_vars

DecisionNext ==
    \/ \E u \in Users, has_text \in BOOLEAN, found \in BOOLEAN :
          DecisionStart(u, has_text, found)
    \/ \E u \in Users, inp \in DecisionInputs, found \in BOOLEAN :
          DecisionReply(u, inp, found)
    \/ \E u \in Users : DecisionEnd(u)

SpecDecision == Init /\ [][DecisionNext]_vars

\* C29: in the decision_making flow an input received at step 1 that holds
\* a perfectionism indicator gets a reply with perfectionism_identified =
\* true and moves the flow to step 2.  The input received at step 1 is the
\* one that follows the answer to step 0: the instance has recorded the
\* response of step 0 and no other.
C29_PerfectionismAtStepOne ==
    [][ \A u \in Users, inp \in DecisionInputs, found \in BOOLEAN :
           /\ Active(u)
           /\ Instance(u).scenario = "decision_making"
           /\ Instance(u).state.user_responses = {0}
           /\ inp.perfectionism
           /\ DecisionReply(u, inp, found)
           => /\ reply'.response.perfectionism_identified
              /\ u \in DOMAIN active_flows'
              /\ active_flows'[u].flow_instance.state.current_step = 2 ]_vars

(***************************************************************************)
(* The flow engine on its own: start_flow and process_user_input called    *)
(* on one instance, as a caller of the flow classes does                   *)
(***************************************************************************)
MaxEngineCalls == 4

\* "ok", "yes" (a risk indicator of the isolation flow), "3" (a rating),
\* "Hopeless" (a crisis text)
EngineInputs ==
    { Analyse(t) : t \in { <<"o", "k">>, <<"y", "e", "s">>, <<"3">>,
                           <<"H", "o", "p", "e", "l", "e", "s", "s">> } }

\* flow = flow_class(); flow.start_flow(context)
EngineStart(user_id, flow_name, has_text, crisis, found) ==
    /\ user_id \notin DOMAIN active_flows
    /\ accepted = 0
    /\ \E started \in {start_flow(NewFlow(clinical_flow_registry[flow_name]),
                                  has_text, crisis, found)} :
          /\ active_flows' = Put(active_flows, user_id, FlowData(started.flow, flow_name, 0))
          /\ reply' = Returned("start", user_id, started.response, NoMonitoring)
    /\ UNCHANGED <<clinical_outcomes, session_history, chat_vars>>

\* flow.process_user_input(text)
EngineProcess(user_id, inp, found) ==
    /\ user_id \in DOMAIN active_flows
    /\ accepted < MaxEngineCalls
    /\ accepted' = accepted + 1
    /\ \E processed \in {process_user_input(active_flows[user_id].flow_instance, inp, found)} :
          /\ active_flows' = [active_flows EXCEPT ![user_id].flow_instance = processed.flow]
          /\ reply' = Returned("continue", user_id, processed.response, NoMonitoring)
    /\ UNCHANGED <<clinical_outcomes, session_history, in_flight, result, probe_vars>>

EngineNext ==
    \/ \E u \in Users, name \in {"isolation_flow", "acute_anxiety_flow", "general_anxiety_flow"}, has_text \in BOOLEAN, crisis \in BOOLEAN,
          found \in BOOLEAN : EngineStart(u, name, has_text, crisis, found)
    \/ \E u \in Users, inp \in EngineInputs, found \in BOOLEAN : EngineProcess(u, inp, found)

SpecEngine == Init /\ [][EngineNext]_vars

\* C30: within a flow session safety_flags is append-only.  Across every
\* process call on an instance the flags that were present stay present, in
\* their order, and the collection never gets shorter.
C30_SafetyFlagsAppendOnly ==
    [][ \A u \in Users :
           /\ Active(u)
           /\ u \in DOMAIN active_flows'
           /\ reply'.op = "continue"
           => \E before \in {Instance(u).state.safety_flags} :
              \E after \in {active_flows'[u].flow_instance.state.safety_flags} :
                  /\ Len(before) <= Len(after)
                  /\ SubSeq(after, 1, Len(before)) = before ]_vars

\* an isolation flow whose instance was flagged for self-harm risk has
\* processed a crisis text afterwards and holds the old flag and the new ones
C30_Witness ==
    /\ Active("u1")
    /\ Instance("u1").scenario = "isolation"
    /\ Len(Instance("u1").state.safety_flags) = 3
    /\ Instance("u1").state.safety_flags[1] = "self_harm_risk_identified"
    /\ Instance("u1").state.safety_flags[3] = "crisis_protocol_activated"
    /\ reply.op = "continue"

(***************************************************************************)
(* The reply contract                                                      *)
(***************************************************************************)
\* C31: every reply returned by start_clinical_flow and
\* process_clinical_response has a message, a requires_input key and a
\* step_info; a terminal reply (flow_completed) is moreover the completion
\* reply, the one that carries the outcome summary.
C31_RepliesCarryContract ==
    /\ reply.op \in {"start", "continue"}
    /\ reply.response.kind # "raised"
    => /\ reply.response.message
       /\ reply.response.requires_input # "absent"
       /\ reply.response.step_info # NoStepInfo
       /\ reply.response.flow_completed => reply.response.kind = "completed"

(***************************************************************************)
(* Progress of an active flow                                              *)
(***************************************************************************)
\* C32: from every reachable state in which a user has an active flow, the
\* flow can still complete.  Stated by its last clause: there is no reachable
\* state in which every further non-crisis turn of the active flow fails, that
\* is, some non-crisis input is processed without the call raising.
C32_FlowCanStillComplete ==
    \A u \in DOMAIN active_flows :
        \E inp \in Inputs, found \in BOOLEAN :
            /\ ~Flagged(inp)
            /\ process_user_input(Instance(u), inp, found).response.kind # "raised"

(***************************************************************************)
(* Ratings of completed flows                                              *)
(***************************************************************************)
\* C33: every flow that reaches completion through the registry has at least
\* one effectiveness rating in its outcome snapshot: every scenario has an
\* effectiveness-check step, and the snapshot a completing continue call
\* appends holds a rating.
C33_CompletedFlowHasRating ==
    [][ \A u \in Users :
           /\ Active(u)
           /\ reply'.op = "continue"
           /\ reply'.user_id = u
           /\ reply'.response.flow_completed
           /\ SnapshotAppended(u)
           => /\ \E idx \in 0..(NumSteps(Instance(u).scenario) - 1) :
                     EffectivenessStep(Instance(u).scenario, idx)
              /\ Len(LastOf(clinical_outcomes'[u]).effectiveness_ratings) >= 1 ]_vars

MaxInterleaved == 2

\* a turn made while no request is waiting: the start of a flow, or a
\* non-crisis answer that advances it
SerialTurn ==
    /\ accepted = 0
    /\ \/ \E u \in Users, name \in FlowNames, found \in BOOLEAN :
             RoundTripStart(u, name, found)
       \/ \E u \in Users, inp \in Inputs, found \in BOOLEAN :
             RoundTripReply(u, inp, found)

\* the server accepts a request whose call, made now, would be the terminal
\* transition of the user's flow: process_user_input answers it with
\* flow_completed
AcceptTerminal(user_id, inp, flow_name, found) ==
    /\ accepted < MaxInterleaved
    /\ user_id \in DOMAIN active_flows
    /\ ~Flagged(inp)
    /\ process_user_input(active_flows[user_id].flow_instance, inp, found).response.flow_completed
    /\ Accept(user_id, inp, flow_name, found)

InterleavedNext ==
    \/ SerialTurn
    \/ \E u \in Users, inp \in ChatInputs,
          name \in {"general_anxiety_flow", "pre_event_flow"}, found \in BOOLEAN :
          AcceptTerminal(u, inp, name, found)
    \/ \E t \in 1..MaxRequests : Dispatch(t)
    \/ \E t \in 1..MaxRequests : Finish(t)

SpecInterleaved == Init /\ [][InterleavedNext]_vars

C36_ReportedProgressInRange ==
    \A u \in Users :
        Active(u)
        => /\ \E status \in {get_clinical_flow_status(active_flows, u).status} :
                 /\ status.current_step \in 1..status.total_steps
                 /\ status.completion_num <= status.total_steps
           /\ ( /\ reply.op = "continue"
                /\ reply.user_id = u
                /\ reply.monitoring # NoMonitoring )
              => reply.monitoring.current_step \in 1..reply.monitoring.total_steps

(***************************************************************************)
(* Explicit session end                                                    *)
(***************************************************************************)
\* C37: end_user_session for a user with an active flow appends exactly one
\* outcome snapshot, of that flow and reflecting its progress at that moment
\* (its ratings and safety flags, and the steps it has advanced past are
\* among the techniques recorded), and clears the active slot; for a user with
\* no active flow it changes nothing in the registry.
C37_SessionEndArchivesOnce ==
    [][ \A u \in Users :
           ( /\ reply'.op = "complete"
             /\ reply'.user_id = u
             /\ CompleteClinicalSession(u) )
           => IF Active(u)
              THEN /\ SnapshotAppended(u)
                   /\ u \notin DOMAIN active_flows'
                   /\ \E snapshot \in {LastOf(clinical_outcomes'[u])} :
                         /\ snapshot.flow_name = active_flows[u].flow_name
                         /\ snapshot.scenario = Instance(u).scenario
                         /\ snapshot.effectiveness_ratings
                               = Instance(u).state.effectiveness_ratings
                         /\ snapshot.safety_flags = Instance(u).state.safety_flags
                         /\ snapshot.total_steps = NumSteps(Instance(u).scenario)
                         /\ snapshot.completion_num
                               >= Min(Instance(u).state.current_step, snapshot.total_steps)
                         /\ snapshot.completion_num <= snapshot.total_steps
                         /\ Len(snapshot.techniques_used) = snapshot.completion_num
              ELSE UNCHANGED <<active_flows, clinical_outcomes, session_history>> ]_vars

\* a session was ended in mid-flow, after two answers: the slot is empty and
\* the history holds one snapshot with the progress made
C37_Witness ==
    /\ reply.op = "complete"
    /\ ~Active("u1")
    /\ Len(Snapshots("u1")) = 1
    /\ LastOf(Snapshots("u1")).scenario = "isolation"
    /\ LastOf(Snapshots("u1")).completion_num = 5
    /\ session_history["u1"] =
         <<"rag_flow_started", "rag_response_processed", "rag_response_processed",
           "rag_session_completed">>

(***************************************************************************)
(* The rating parsers, applied to texts of a few words                     *)
(***************************************************************************)
MaxRatingWords == 2

\* digit tokens in and out of range, number words, a word that contains a
\* number word, a word without a rating
RatingVocabulary ==
    { <<"3">>,
      <<"1", "0">>,
      <<"1", "1">>,
      <<"t", "w", "o">>,
      <<"n", "i", "n", "e">>,
      <<"d", "o", "n", "e">>,
      <<"o", "k">> }

RECURSIVE RatingWordSeqs(_)
RatingWordSeqs(n) ==
    IF n = 0 THEN { <<>> }
    ELSE { Append(ws, w) : ws \in RatingWordSeqs(n - 1), w \in RatingVocabulary }

\* a reply waits at an effectiveness-check step
RatingInit ==
    /\ active_flows = EmptyDict
    /\ clinical_outcomes = EmptyDict
    /\ session_history = EmptyDict
    /\ reply = Returned("none", "none", Reply, NoMonitoring)
    /\ in_flight = EmptyDict
    /\ accepted = 0
    /\ result = NoResult
    /\ flow_status = NoStatus
    /\ screen = NoScreen
    /\ routing = NoRouting
    /\ parsed \in { [NoParsed EXCEPT !.words = ws, !.text = Join(ws)] :
                      ws \in UNION { RatingWordSeqs(n) : n \in 1..MaxRatingWords } }

\* the flows parse the reply: AcuteAnxietyFlow at step 6, GeneralAnxietyFlow
\* at step 4 (its extract_effectiveness_rating has the body of
\* extract_anxiety_rating), NighttimeFlow at step 6
ParseRating ==
    /\ ~parsed.done
    /\ parsed' = [parsed EXCEPT !.done = TRUE,
                                !.anxiety_rating = extract_anxiety_rating(parsed.text),
                                !.effectiveness_rating = extract_anxiety_rating(parsed.text),
                                !.sleepiness_rating = extract_sleepiness_rating(parsed.text)]
    /\ UNCHANGED <<manager_vars, in_flight, accepted, result, flow_status, screen, routing>>

SpecRating == RatingInit /\ [][ParseRating]_vars

\* the rating a word stands for: a digit token 1..10 or a number word
\* one..ten; 0 for any other word
TokenRating(word) ==
    IF \E v \in 1..10 : word = word_ratings[v] THEN CHOOSE v \in 1..10 : word = word_ratings[v]
    ELSE IF word = <<"1", "0">> THEN 10
    ELSE IF Len(word) = 1 /\ \E v \in 1..9 : ToString(v) = word[1]
         THEN CHOOSE v \in 1..9 : ToString(v) = word[1]
    ELSE 0

\* C38: the rating parser returns the first integer 1..10 that appears in the
\* reply as a digit token or as a number word one..ten (first match wins),
\* and no rating (0 here) when the reply holds neither, identically in every
\* scenario; every parsed value is in 1..10.
C38_FirstRatingTokenWins ==
    parsed.done
    => \E hits \in {{ i \in 1..Len(parsed.words) : TokenRating(Lower(parsed.words[i])) # 0 }} :
       \E expected \in {IF hits = {} THEN 0
                        ELSE TokenRating(Lower(parsed.words[CHOOSE h \in hits :
                                                               \A g \in hits : h <= g]))} :
          /\ parsed.anxiety_rating = expected
          /\ parsed.effectiveness_rating = expected
          /\ parsed.sleepiness_rating = expected
          /\ expected \in 0..10

(***************************************************************************)
(* The crisis reply across scenarios, steps and callers                    *)
(***************************************************************************)
\* C39: the crisis reply is the same fixed structure (flow_type
\* crisis_override, the same core resource list, free-form continuation
\* disabled, immediate escalation set) for the same crisis text, whichever
\* scenario was active, at whichever step, and whether or not a flow was
\* active when the text arrived: a crisis turn that meets no fault is
\* answered with the reply of activate_crisis_override and with the response
\* process_message assembles from it.
C39_CrisisReplyIsFixed ==
    [][ \A u \in Users, inp \in ChatInputs, name \in PipelineFlows, found \in BOOLEAN :
           /\ \/ ProcessMessage(u, inp, name, found, "none")
              \/ ContinueConversation(u, inp, name, found, "none")
           /\ Flagged(inp)
           => /\ reply'.response \in CrisisReplies
              /\ reply'.response.flow_type = "crisis_override"
              /\ reply'.response.disable_free_form_responses
              /\ reply'.response.immediate_escalation
              /\ result' \in { complete_response(c, name, TRUE, FALSE) :
                                 c \in CrisisReplies } ]_vars

============================================================================
